---- MODULE Spec2Model ----
(***************************************************************************)
(* Verification model of the FoodSafetyIntelligence retrieval pipeline:    *)
(*   - src/retrieval/chunking.py   (chunk_article, chunk_regulation,       *)
(*                                  chunk_corpus, ArticleChunk.chunk_id)   *)
(*   - src/retrieval/routing.py    (RoutingResult.add, RoutingTable)       *)
(*   - src/indexing/vector_store.py (VectorStore)                          *)
(*   - src/extraction/entity_extractor.py (extract_defined_terms,          *)
(*                                  extract_cross_references,              *)
(*                                  extract_entities)                      *)
(*   - src/ingestion/html_parser.py (detect_format, parse_regulation)      *)
(*                                                                         *)
(* Text model.  A Python string is represented by what split("\n") and     *)
(* strip() see of it: the non-empty sequence of its lines, each line being *)
(* a record [pre, tag, len, post]: pre/post count the leading/trailing     *)
(* whitespace characters, len is the length of the stripped line and tag   *)
(* stands for its characters.  A whitespace-only line has len = 0 and      *)
(* tag = "".  "\n".join(parts) is the sequence of the parts.               *)
(***************************************************************************)
EXTENDS Integers, Sequences, FiniteSets, TLC

VARIABLES
    article,        \* chunk_article: the Article argument
    max_chars,      \* chunk_article: the max_chars argument
    article_done,   \* chunk_article: TRUE once the call has returned
    chunks,         \* chunk_article: the returned list
    regulations,    \* chunk_corpus: the list of ParsedRegulation
    reg_arg,        \* chunk_regulation: index of the regulation of the last call (0: none)
    reg_chunks,     \* chunk_regulation: the returned list of the last call
    corpus_done,    \* chunk_corpus: TRUE once the call has returned
    corpus_chunks,  \* chunk_corpus: the returned list
    entity_index,   \* RoutingTable: the EntityIndex it was built from
    table,          \* RoutingTable: the term dictionary built by __init__
    hash_seed,      \* the hash seed of the process (fixes set iteration order)
    call,           \* RoutingTable / RoutingResult: the last call on result
    result,         \* the RoutingResult
    added,          \* the add calls made on result so far, <<celex_id, reason>>
    ids,            \* VectorStore._ids
    texts,          \* VectorStore._texts
    metadatas,      \* VectorStore._metadatas
    embeddings,     \* VectorStore._embeddings: None, or the array of rows
    disk,           \* the files of persist_dir
    store_call,     \* VectorStore: the last call and its arguments
    indexed,        \* VectorStore: the number the last index_chunks returned
    output,         \* VectorStore: the list the last search returned
    error,          \* VectorStore: the exception the last call raised, or "none"
    ext_article,    \* extract_defined_terms / extract_cross_references: the Article
    ext_regs,       \* extract_entities: the list of ParsedRegulation
    ext_call,       \* entity extractor: the last call
    ext_terms,      \* entity extractor: the DefinedTerm list of the last call
    ext_refs,       \* entity extractor: the CrossReference list of the last call
    soup,           \* html parser: the elements of the parsed document
    fmt,            \* html parser: the format detect_format returned, "" if none
    parse_call,     \* html parser: the last call
    parsed,         \* html parser: None, or the value the last call returned
    parse_error,    \* html parser: the exception the last call raised, or "none"
    html_dir,       \* parse_corpus: the parsed files of the directory, sorted by name
    parsed_corpus,  \* parse_corpus: the list the last call returned
    callers,        \* concurrent query callers: the call in progress of each
    cache,          \* eurlex_downloader: the files of the output directory, by document ID
    dl_call,        \* eurlex_downloader: the last download_regulation call and what it returned
    dl_log          \* eurlex_downloader: one entry per call made (history)

chunkVars == <<article, max_chars, article_done, chunks,
              regulations, reg_arg, reg_chunks, corpus_done, corpus_chunks>>

routeVars == <<entity_index, table, hash_seed, call, result, added>>

indexVars == <<ids, texts, metadatas, embeddings, disk>>

storeVars == <<indexVars, store_call, indexed, output, error>>

extractVars == <<ext_article, ext_regs, ext_call, ext_terms, ext_refs>>

parseVars == <<soup, fmt, parse_call, parsed, parse_error, html_dir, parsed_corpus>>

dlVars == <<cache, dl_call, dl_log>>

docVars == <<extractVars, parseVars, callers, dlVars>>

vars == <<chunkVars, routeVars, storeVars, docVars>>

\* The entity extractor before any call.
ExtractIdle ==
    /\ ext_article = <<>>
    /\ ext_regs = <<>>
    /\ ext_call = [op |-> "none"]
    /\ ext_terms = <<>>
    /\ ext_refs = <<>>

\* The html parser before any call.
ParseIdle ==
    /\ soup = <<>>
    /\ fmt = ""
    /\ parse_call = [op |-> "none"]
    /\ parsed = <<>>
    /\ parse_error = "none"
    /\ html_dir = <<>>
    /\ parsed_corpus = <<>>

\* No concurrent caller.
CallersIdle == callers = <<>>

DownloadIdle == cache = <<>> /\ dl_call = [op |-> "none"] /\ dl_log = <<>>

DocIdle == ExtractIdle /\ ParseIdle /\ CallersIdle /\ DownloadIdle

\* The chunker before any call.
ChunkIdle ==
    /\ article = <<>>
    /\ max_chars = 2000
    /\ article_done = FALSE
    /\ chunks = <<>>
    /\ regulations = <<>>
    /\ reg_arg = 0
    /\ reg_chunks = <<>>
    /\ corpus_done = FALSE
    /\ corpus_chunks = <<>>

\* No routing table, no result.
RouteIdle ==
    /\ entity_index = [defined_terms |-> <<>>]
    /\ table = [term_keys |-> <<>>, term_to_celex |-> <<>>]
    /\ hash_seed = 1
    /\ call = [op |-> "none"]
    /\ result = [celex_ids |-> <<>>, reasons |-> <<>>]
    /\ added = <<>>

\* No vector store: nothing in memory, an empty directory.
StoreIdle ==
    /\ ids = <<>>
    /\ texts = <<>>
    /\ metadatas = <<>>
    /\ embeddings = <<>>
    /\ disk = [embeddings_npy |-> <<>>, metadata_json |-> <<>>, texts_json |-> <<>>]
    /\ store_call = [op |-> "none"]
    /\ indexed = 0
    /\ output = <<>>
    /\ error = "none"

-----------------------------------------------------------------------------
(* Bounds of the model *)

MaxParas == 3
MaxDocs == 2
MaxArticles == 2
MaxTerms == 2
MaxSeed == 2
MaxAdds == 2
MaxChunks == 2

-----------------------------------------------------------------------------
(* Generic helpers *)

SeqsUpTo(S, n) == UNION {[1..k -> S] : k \in 0..n}

RECURSIVE SumSeq(_)
SumSeq(s) == IF s = <<>> THEN 0 ELSE Head(s) + SumSeq(Tail(s))

\* The concatenation of ss[lo..hi], by bisection.
RECURSIVE FlattenRange(_, _, _)
FlattenRange(ss, lo, hi) ==
    IF lo > hi THEN <<>>
    ELSE IF lo = hi THEN ss[lo]
    ELSE LET mid == (lo + hi) \div 2
         IN FlattenRange(ss, lo, mid) \o FlattenRange(ss, mid + 1, hi)

Flatten(ss) == FlattenRange(ss, 1, Len(ss))

\* The members of a set of integers in increasing order.
SortedSeq(I) ==
    [k \in 1..Cardinality(I) |-> CHOOSE i \in I : Cardinality({j \in I : j <= i}) = k]

\* The elements of s without repetitions, in order of first occurrence.
FirstSeen(s) ==
    LET firsts == SortedSeq({i \in DOMAIN s : \A j \in 1..(i - 1) : s[j] # s[i]})
    IN [k \in DOMAIN firsts |-> s[firsts[k]]]

Range(s) == {s[i] : i \in DOMAIN s}

NoDuplicates(s) == \A i, j \in DOMAIN s : i # j => s[i] # s[j]

-----------------------------------------------------------------------------
(* src/retrieval/chunking.py *)

MAX_CHUNK_CHARS == 2000

MIN_CHUNK_CHARS == 200

\* One line of a text: pre + len + post characters.
MkLine(pre, tag, len, post) == [pre |-> pre, tag |-> tag, len |-> len, post |-> post]

\* A one-line string literal without surrounding whitespace.
Str(s) == <<MkLine(0, s, Len(s), 0)>>

\* len(text)
LineLen(l) == l.pre + l.len + l.post

TextLen(t) == SumSeq([i \in DOMAIN t |-> LineLen(t[i])]) + (Len(t) - 1)

\* para.strip()
StripLine(l) == MkLine(0, l.tag, l.len, 0)

\* not text.strip()
IsBlankText(t) == \A i \in DOMAIN t : t[i].len = 0

\* A variant of ArticleChunk that numbers the chunks of an article from 1
ArticleChunk_oneBased(a, text, idx, total) ==
    [celex_id       |-> a.celex_id,
     article_number |-> a.article_number,
     article_title  |-> a.title,
     text           |-> text,
     chapter        |-> a.chapter,
     section        |-> a.section,
     chunk_index    |-> idx + 1,
     total_chunks   |-> total,
     char_count     |-> TextLen(text),
     occurrence     |-> 0]

\* ArticleChunk(...) with __post_init__; _occurrence is absent until
\* chunk_regulation sets it, and getattr(self, "_occurrence", 0) reads 0.
ArticleChunk(a, text, idx, total) ==
    [celex_id       |-> a.celex_id,
     article_number |-> a.article_number,
     article_title  |-> a.title,
     text           |-> text,
     chapter        |-> a.chapter,
     section        |-> a.section,
     chunk_index    |-> idx,
     total_chunks   |-> total,
     char_count     |-> TextLen(text),
     occurrence     |-> 0]

\* Mutant: the occurrence suffix left out of the identifier.
chunk_id_noOcc(c) ==
    LET base == c.celex_id \o "_art" \o ToString(c.article_number)
    IN IF c.total_chunks = 1
       THEN base
       ELSE base \o "_chunk" \o ToString(c.chunk_index)

\* ArticleChunk.chunk_id
chunk_id(c) ==
    LET base == c.celex_id \o "_art" \o ToString(c.article_number)
        occ  == IF c.occurrence > 0
                THEN base \o "_occ" \o ToString(c.occurrence)
                ELSE base
    IN IF c.total_chunks = 1
       THEN occ
       ELSE occ \o "_chunk" \o ToString(c.chunk_index)

\* A variant of the loop step that closes a chunk whenever the next
\* paragraph does not fit, however little has been accumulated
SplitStep_noMinTest(acc, para, mc) ==
    LET p == StripLine(para) IN
    IF p.len = 0 THEN acc
    ELSE IF acc.current_len + p.len > mc /\ acc.current_len > 0
         THEN [chunks_text   |-> Append(acc.chunks_text, acc.current_parts),
               current_parts |-> <<p>>,
               current_len   |-> p.len]
         ELSE [chunks_text   |-> acc.chunks_text,
               current_parts |-> Append(acc.current_parts, p),
               current_len   |-> acc.current_len + p.len]

\* One iteration of the paragraph loop of chunk_article.
SplitStep(acc, para, mc) ==
    LET p == StripLine(para) IN
    IF p.len = 0 THEN acc
    ELSE IF acc.current_len + p.len > mc /\ acc.current_len >= MIN_CHUNK_CHARS
         THEN [chunks_text   |-> Append(acc.chunks_text, acc.current_parts),
               current_parts |-> <<p>>,
               current_len   |-> p.len]
         ELSE [chunks_text   |-> acc.chunks_text,
               current_parts |-> Append(acc.current_parts, p),
               current_len   |-> acc.current_len + p.len]

RECURSIVE SplitLoop(_, _, _)
SplitLoop(acc, paragraphs, mc) ==
    IF paragraphs = <<>> THEN acc
    ELSE SplitLoop(SplitStep(acc, Head(paragraphs), mc), Tail(paragraphs), mc)

\* Mutant: a small trailing remainder is dropped instead of merged.
MergeTail_dropTail(acc) ==
    IF acc.current_parts # <<>>
    THEN IF Len(acc.chunks_text) > 0 /\ acc.current_len < MIN_CHUNK_CHARS
         THEN acc.chunks_text
         ELSE Append(acc.chunks_text, acc.current_parts)
    ELSE acc.chunks_text

\* The merge of a small trailing remainder into the previous chunk.
MergeTail(acc) ==
    IF acc.current_parts # <<>>
    THEN IF Len(acc.chunks_text) > 0 /\ acc.current_len < MIN_CHUNK_CHARS
         THEN [acc.chunks_text EXCEPT ![Len(acc.chunks_text)] = @ \o acc.current_parts]
         ELSE Append(acc.chunks_text, acc.current_parts)
    ELSE acc.chunks_text

\* Mutant: the early return for a blank body is missing.
chunk_article_noBlankCase(a, mc) ==
    IF TextLen(a.text) <= mc
    THEN <<ArticleChunk(a, a.text, 0, 1)>>
    ELSE LET acc0 == [chunks_text |-> <<>>, current_parts |-> <<>>, current_len |-> 0]
             chunks_text == MergeTail(SplitLoop(acc0, a.text, mc))
             total == Len(chunks_text)
         IN [i \in 1..total |-> ArticleChunk(a, chunks_text[i], i - 1, total)]

\* chunk_article(article, max_chars)
chunk_article(a, mc) ==
    IF IsBlankText(a.text)
    THEN <<ArticleChunk(a, IF a.title # "" THEN Str(a.title) ELSE Str("(empty article)"), 0, 1)>>
    ELSE IF TextLen(a.text) <= mc
    THEN <<ArticleChunk(a, a.text, 0, 1)>>
    ELSE LET acc0 == [chunks_text |-> <<>>, current_parts |-> <<>>, current_len |-> 0]
             chunks_text == MergeTail(SplitLoop(acc0, a.text, mc))
             total == Len(chunks_text)
         IN [i \in 1..total |-> ArticleChunk(a, chunks_text[i], i - 1, total)]

\* The seen / counters dictionaries of chunk_regulation, by their meaning:
\* seen[cid] is the number of chunks with that chunk_id, counters[cid] after
\* chunk i is the number of chunks up to i with that chunk_id.
SeenCount(cs, cid) == Cardinality({i \in DOMAIN cs : chunk_id(cs[i]) = cid})

CounterAt(cs, i) == Cardinality({j \in 1..i : chunk_id(cs[j]) = chunk_id(cs[i])})

\* A variant of chunk_regulation that numbers the occurrences of every
\* chunk_id, recurring or not
chunk_regulation_alwaysCount(reg, mc) ==
    LET cs == Flatten([k \in DOMAIN reg.articles |-> chunk_article(reg.articles[k], mc)])
    IN [i \in DOMAIN cs |-> [cs[i] EXCEPT !.occurrence = CounterAt(cs, i)]]

\* chunk_regulation(regulation, max_chars)
chunk_regulation(reg, mc) ==
    LET cs == Flatten([k \in DOMAIN reg.articles |-> chunk_article(reg.articles[k], mc)])
        has_dupes == \E i \in DOMAIN cs : SeenCount(cs, chunk_id(cs[i])) > 1
    IN IF has_dupes
       THEN [i \in DOMAIN cs |->
                IF SeenCount(cs, chunk_id(cs[i])) > 1
                THEN [cs[i] EXCEPT !.occurrence = CounterAt(cs, i)]
                ELSE [cs[i] EXCEPT !.occurrence = 0]]
       ELSE cs

\* chunk_corpus(regulations, max_chars)
chunk_corpus(regs, mc) ==
    Flatten([k \in DOMAIN regs |-> chunk_regulation(regs[k], mc)])

-----------------------------------------------------------------------------
(* Inputs of the chunker *)

DocIds == {"32002R0178", "32015R2283"}

ArtNums == {8, 9}

Titles == {"", "Definitions"}

\* Stripped paragraph lengths, around MIN_CHUNK_CHARS and MAX_CHUNK_CHARS.
ParaLens == {0, 199, 200, 1800}

MaxCharsValues == {1, 400, MAX_CHUNK_CHARS}

\* Line i of a body: the tag names the paragraph by its position.
BodyLine(i, pre, len, post) ==
    MkLine(pre, IF len = 0 THEN "" ELSE "p" \o ToString(i), len, post)

\* <<leading whitespace, stripped length, trailing whitespace>> of a line.
LineShapes == {<<w, n, w>> : w \in {0, 1}, n \in ParaLens}

Bodies ==
    UNION {{[i \in 1..n |-> BodyLine(i, f[i][1], f[i][2], f[i][3])] :
                f \in [1..n -> LineShapes]} : n \in 1..MaxParas}

\* Article(celex_id, article_number, title, text, chapter, section)
Article(d, n, title, text) ==
    [celex_id |-> d, article_number |-> n, title |-> title, text |-> text,
     chapter |-> "CHAPTER I", section |-> ""]

Articles == {Article("32015R2283", 3, t, b) : t \in Titles, b \in Bodies}

\* Bodies of the articles of a corpus: one short paragraph, and bodies that
\* chunk_article splits into two and into three chunks at MAX_CHUNK_CHARS.
CorpusBodies ==
    {<<BodyLine(1, 0, 199, 0)>>,
     <<BodyLine(1, 0, 1800, 0), BodyLine(2, 0, 1800, 0)>>,
     <<BodyLine(1, 0, 1800, 0), BodyLine(2, 0, 1800, 0), BodyLine(3, 0, 1800, 0)>>}

\* <<article_number, body>> of the articles of a document: number 8 with
\* every body, number 9 with the short one.
ArticleChoices ==
    {<<n, b>> \in ArtNums \X CorpusBodies : n = 8 \/ Len(b) = 1}

\* ParsedRegulation(celex_id, articles) of document d: every article carries
\* the ID of its document, as the parsers build them.
RegulationsOf(d) ==
    {[celex_id |-> d,
      articles |-> [k \in DOMAIN as |-> Article(d, as[k][1], "Definitions", as[k][2])]] :
        as \in SeqsUpTo(ArticleChoices, MaxArticles)}

\* Lists of pairwise distinct document IDs.
DocIdLists ==
    {ds \in SeqsUpTo(DocIds, MaxDocs) : \A i, j \in DOMAIN ds : i # j => ds[i] # ds[j]}

\* Corpora of documents with pairwise distinct document IDs.
Corpora ==
    UNION {{c \in [DOMAIN ds -> UNION {RegulationsOf(d) : d \in DocIds}] :
                \A i \in DOMAIN ds : c[i].celex_id = ds[i]} : ds \in DocIdLists}

-----------------------------------------------------------------------------
(* Specification of chunk_article: Init draws the article and max_chars. *)

InitArticle ==
    /\ article \in Articles
    /\ max_chars \in MaxCharsValues
    /\ article_done = FALSE
    /\ chunks = <<>>
    /\ regulations = <<>>
    /\ reg_arg = 0
    /\ reg_chunks = <<>>
    /\ corpus_done = FALSE
    /\ corpus_chunks = <<>>
    /\ RouteIdle
    /\ StoreIdle
    /\ DocIdle

ChunkArticle ==
    /\ article_done' = TRUE
    /\ chunks' = chunk_article(article, max_chars)
    /\ UNCHANGED <<article, max_chars, regulations, reg_arg, reg_chunks,
                   corpus_done, corpus_chunks, routeVars, storeVars, docVars>>

NextArticle == ChunkArticle

SpecArticle == InitArticle /\ [][NextArticle]_vars

-----------------------------------------------------------------------------
(* Specification of chunk_regulation and chunk_corpus: Init draws the corpus. *)

InitCorpus ==
    /\ article = <<>>
    /\ max_chars = MAX_CHUNK_CHARS
    /\ article_done = FALSE
    /\ chunks = <<>>
    /\ regulations \in Corpora
    /\ reg_arg = 0
    /\ reg_chunks = <<>>
    /\ corpus_done = FALSE
    /\ corpus_chunks = <<>>
    /\ RouteIdle
    /\ StoreIdle
    /\ DocIdle

ChunkRegulation(k) ==
    /\ reg_arg' = k
    /\ reg_chunks' = chunk_regulation(regulations[k], max_chars)
    /\ UNCHANGED <<article, max_chars, article_done, chunks, regulations,
                   corpus_done, corpus_chunks, routeVars, storeVars, docVars>>

ChunkCorpus ==
    /\ corpus_done' = TRUE
    /\ corpus_chunks' = chunk_corpus(regulations, max_chars)
    /\ UNCHANGED <<article, max_chars, article_done, chunks, regulations,
                   reg_arg, reg_chunks, routeVars, storeVars, docVars>>

NextCorpus ==
    \/ \E k \in DOMAIN regulations : ChunkRegulation(k)
    \/ ChunkCorpus

SpecCorpus == InitCorpus /\ [][NextCorpus]_vars

-----------------------------------------------------------------------------
(* Properties of chunk_article (SpecArticle) *)

\* The lines of "\n".join(c.text for c in chunks), the chunks taken in list
\* order (which is chunk_index order).
JoinedLines == Flatten([i \in DOMAIN chunks |-> chunks[i].text])

StrippedLines(t) == [i \in DOMAIN t |-> StripLine(t[i])]

IsNonEmptyLine(l) == l.len > 0

\* The non-empty paragraphs of a text, stripped, in order.
NonEmptyParas(t) == SelectSeq(StrippedLines(t), IsNonEmptyLine)

\* C1 as stated: for a non-blank body, joining the chunk texts with newlines
\* and splitting at newlines yields exactly the body's non-empty paragraphs
\* (up to surrounding whitespace), each once and in order.
C1_JoinYieldsExactlyNonEmptyParas ==
    (article_done /\ ~IsBlankText(article.text))
        => StrippedLines(JoinedLines) = NonEmptyParas(article.text)

\* C1 amended: for a non-blank body, the lines of the joined chunk texts that
\* are not blank are exactly the body's non-empty paragraphs (up to surrounding
\* whitespace), each once and in order; an unsplit body keeps its blank lines.
C1_JoinPreservesParas ==
    (article_done /\ ~IsBlankText(article.text))
        => NonEmptyParas(JoinedLines) = NonEmptyParas(article.text)

\* The paragraph loop over the body of a ends with a remainder below
\* MIN_CHUNK_CHARS and a previous chunk to merge it into.
RemainderMerged(a, mc) ==
    LET acc == SplitLoop([chunks_text |-> <<>>, current_parts |-> <<>>, current_len |-> 0],
                         a.text, mc)
    IN /\ TextLen(a.text) > mc
       /\ Len(acc.chunks_text) > 0
       /\ acc.current_parts # <<>>
       /\ acc.current_len < MIN_CHUNK_CHARS

\* C1 witness: a split body whose trailing remainder was merged into the
\* previous chunk, two chunks being returned.
C1_Witness ==
    /\ article_done
    /\ ~IsBlankText(article.text)
    /\ RemainderMerged(article, max_chars)
    /\ Len(chunks) = 2

\* C3: a body that is blank, or no longer than max_chars, gives exactly one
\* chunk, with chunk_index 0 and total_chunks 1.
C3_ShortOrBlankGivesOneChunk ==
    (article_done /\ (IsBlankText(article.text) \/ TextLen(article.text) <= max_chars))
        => /\ Len(chunks) = 1
           /\ chunks[1].chunk_index = 0
           /\ chunks[1].total_chunks = 1

\* C3 witness: a blank body that is longer than max_chars has been chunked.
C3_Witness ==
    /\ article_done
    /\ IsBlankText(article.text)
    /\ TextLen(article.text) > max_chars
    /\ Len(chunks) = 1

\* The body of C4: 1800 characters, a newline, 200 characters (2001 in all).
C4_Body == <<BodyLine(1, 0, 1800, 0), BodyLine(2, 0, 200, 0)>>

\* C4 as stated: with max_chars = 2000 the 2001-character body of a
\* 1800-character and a 200-character paragraph gives exactly two chunks,
\* neither smaller than MIN_CHUNK_CHARS.
C4_Body2001SplitsInTwo ==
    (article_done /\ article.text = C4_Body /\ max_chars = MAX_CHUNK_CHARS)
        => /\ Len(chunks) = 2
           /\ \A i \in DOMAIN chunks : chunks[i].char_count >= MIN_CHUNK_CHARS

-----------------------------------------------------------------------------
(* Properties of chunk_regulation and chunk_corpus (SpecCorpus) *)

ChunkIds(cs) == [i \in DOMAIN cs |-> chunk_id(cs[i])]

\* Some article number occurs twice in document reg.
HasRecurringNumber(reg) ==
    \E j, k \in DOMAIN reg.articles :
        j # k /\ reg.articles[j].article_number = reg.articles[k].article_number

\* C2: the chunk_ids of the chunks of a corpus of documents with pairwise
\* distinct IDs are pairwise distinct.
C2_ChunkIdsUnique ==
    (corpus_done /\ \A i, j \in DOMAIN regulations :
                        i # j => regulations[i].celex_id # regulations[j].celex_id)
        => NoDuplicates(ChunkIds(corpus_chunks))

\* C2 witness: a corpus of two documents, one with a recurring article number
\* on two whole articles, has been chunked.
C2_Witness ==
    /\ corpus_done
    /\ Len(regulations) = 2
    /\ \E d \in DOMAIN regulations : HasRecurringNumber(regulations[d])
    /\ \E i, j \in DOMAIN corpus_chunks :
          /\ i # j
          /\ corpus_chunks[i].celex_id = corpus_chunks[j].celex_id
          /\ corpus_chunks[i].article_number = corpus_chunks[j].article_number
          /\ corpus_chunks[i].total_chunks = 1
          /\ corpus_chunks[j].total_chunks = 1

\* The article (by position in the document) that chunk i of
\* chunk_regulation(reg, mc) was cut from.
ArticleOfChunk(reg, mc, i) ==
    LET counts == [k \in DOMAIN reg.articles |-> Len(chunk_article(reg.articles[k], mc))]
        upto(k) == SumSeq(SubSeq(counts, 1, k))
    IN CHOOSE k \in DOMAIN reg.articles : upto(k - 1) < i /\ i <= upto(k)

\* Article k of reg is the n-th article of reg with its number.
OccurrenceOfArticle(reg, k) ==
    Cardinality({j \in 1..k :
        reg.articles[j].article_number = reg.articles[k].article_number})

NumberRecurs(reg, k) ==
    \E j \in DOMAIN reg.articles :
        j # k /\ reg.articles[j].article_number = reg.articles[k].article_number

\* C5 as stated: every chunk of an article whose number occurs more than once
\* in the document carries the occurrence counter k >= 1 of its article (the
\* k-th article with that number, in document order).
C5_RecurringNumberGetsOccurrence ==
    reg_arg # 0 =>
        LET reg == regulations[reg_arg] IN
        \A i \in DOMAIN reg_chunks :
            LET k == ArticleOfChunk(reg, max_chars, i) IN
            NumberRecurs(reg, k)
                => reg_chunks[i].occurrence = OccurrenceOfArticle(reg, k)

-----------------------------------------------------------------------------
(* Python str operations on strings *)

CharAt(s, i) == SubSeq(s, i, i)

\* needle in hay
Contains(hay, needle) ==
    \E i \in 1..(Len(hay) - Len(needle) + 1) : SubSeq(hay, i, i + Len(needle) - 1) = needle

UpperLetters == "ABCDEFGHIJKLMNOPQRSTUVWXYZ"

LowerLetters == "abcdefghijklmnopqrstuvwxyz"

LowerMap ==
    [c \in {CharAt(UpperLetters, i) : i \in 1..Len(UpperLetters)} |->
        CharAt(LowerLetters, CHOOSE i \in 1..Len(UpperLetters) : CharAt(UpperLetters, i) = c)]

LowerChar(c) == IF c \in DOMAIN LowerMap THEN LowerMap[c] ELSE c

\* The characters lo..hi of s lower-cased, by bisection.
RECURSIVE LowerRange(_, _, _)
LowerRange(s, lo, hi) ==
    IF lo > hi THEN ""
    ELSE IF lo = hi THEN LowerChar(CharAt(s, lo))
    ELSE LET mid == (lo + hi) \div 2
         IN LowerRange(s, lo, mid) \o LowerRange(s, mid + 1, hi)

\* s.lower()
Lower(s) == LowerRange(s, 1, Len(s))

IsSpace(c) == c \in {" ", "\t", "\n", "\r"}

\* Positions of the characters of s that are not whitespace
NonSpace(s) == {i \in 1..Len(s) : ~IsSpace(CharAt(s, i))}

\* s.strip(): from the first to the last character that is not whitespace
Strip(s) ==
    LET ns == NonSpace(s)
    IN IF ns = {} THEN ""
       ELSE SubSeq(s, CHOOSE i \in ns : \A j \in ns : i <= j,
                      CHOOSE i \in ns : \A j \in ns : j <= i)

-----------------------------------------------------------------------------
(* src/ingestion/corpus.py: the static catalog, in source order *)

CORPUS_ENTRIES ==
    <<
     [celex |-> "32002R0178", category |-> "general_food_law",
      title |-> "General Food Law Regulation"],
     [celex |-> "32019R1381", category |-> "general_food_law",
      title |-> "Transparency and sustainability of EU risk assessment in food chain"],
     [celex |-> "32004R0852", category |-> "general_food_law",
      title |-> "Hygiene of foodstuffs"],
     [celex |-> "32004R0853", category |-> "general_food_law",
      title |-> "Hygiene rules for food of animal origin"],
     [celex |-> "32011R0016", category |-> "general_food_law",
      title |-> "Implementing measures for the Rapid Alert System for Food and Feed"],
     [celex |-> "32015R2283", category |-> "novel_food",
      title |-> "Novel Foods Regulation"],
     [celex |-> "32017R2468", category |-> "novel_food",
      title |-> "Novel food application requirements"],
     [celex |-> "32017R2469", category |-> "novel_food",
      title |-> "Novel food application requirements (traditional foods from third countries)"],
     [celex |-> "32017R2470", category |-> "novel_food",
      title |-> "Union List of novel foods"],
     [celex |-> "32018R0456", category |-> "novel_food",
      title |-> "Procedural steps of the consultation process for novel food status"],
     [celex |-> "32008R1333", category |-> "food_additives",
      title |-> "Food Additives Regulation"],
     [celex |-> "32008R1331", category |-> "food_additives",
      title |-> "Common authorisation procedure for food additives, enzymes, flavourings"],
     [celex |-> "32012R0231", category |-> "food_additives",
      title |-> "Specifications for food additives"],
     [celex |-> "32008R1332", category |-> "food_enzymes",
      title |-> "Food Enzymes Regulation"],
     [celex |-> "32008R1334", category |-> "flavourings",
      title |-> "Flavourings Regulation"],
     [celex |-> "32004R1935", category |-> "food_contact_materials",
      title |-> "Food Contact Materials framework regulation"],
     [celex |-> "32011R0010", category |-> "food_contact_materials",
      title |-> "Plastic food contact materials"],
     [celex |-> "32022R1616", category |-> "food_contact_materials",
      title |-> "Recycled plastic food contact materials"],
     [celex |-> "32006R2023", category |-> "food_contact_materials",
      title |-> "Good Manufacturing Practice for food contact materials"],
     [celex |-> "32011R1169", category |-> "labelling_fic",
      title |-> "Food Information to Consumers (FIC) Regulation"],
     [celex |-> "32013R1337", category |-> "labelling_fic",
      title |-> "Origin labelling for meat"],
     [celex |-> "32006R1924", category |-> "nutrition_health_claims",
      title |-> "Nutrition and Health Claims Regulation"],
     [celex |-> "32012R0432", category |-> "nutrition_health_claims",
      title |-> "List of permitted health claims"],
     [celex |-> "32023R0915", category |-> "contaminants",
      title |-> "Maximum levels for contaminants in food"],
     [celex |-> "32006R1881", category |-> "contaminants",
      title |-> "Maximum levels for contaminants in food (predecessor)"],
     [celex |-> "32017R0625", category |-> "official_controls",
      title |-> "Official Controls Regulation"],
     [celex |-> "32018R0848", category |-> "organic",
      title |-> "Organic Production Regulation"],
     [celex |-> "32013R0609", category |-> "food_specific_groups",
      title |-> "Food for Specific Groups Regulation"],
     [celex |-> "32016R0127", category |-> "food_specific_groups",
      title |-> "Requirements for infant formula and follow-on formula"],
     [celex |-> "32002L0046", category |-> "food_supplements",
      title |-> "Food Supplements Directive"],
     [celex |-> "32003R1829", category |-> "gmo",
      title |-> "GM Food and Feed Regulation"],
     [celex |-> "32003R1830", category |-> "gmo",
      title |-> "Traceability and labelling of GMOs"],
     [celex |-> "32006R1925", category |-> "fortification",
      title |-> "Addition of vitamins and minerals to foods"]
    >>

CORPUS ==
    [d \in {CORPUS_ENTRIES[i].celex : i \in DOMAIN CORPUS_ENTRIES} |->
        LET e == CORPUS_ENTRIES[CHOOSE i \in DOMAIN CORPUS_ENTRIES : CORPUS_ENTRIES[i].celex = d]
        IN [category |-> e.category, title |-> e.title]]

-----------------------------------------------------------------------------
(* src/retrieval/routing.py *)

ALWAYS_INCLUDE == {"32002R0178", "32011R1169"}

CATEGORY_ROUTING ==
    ("novel food" :> <<"novel_food">>) @@
    ("food supplement" :> <<"food_supplements">>) @@
    ("infant formula" :> <<"food_specific_groups">>) @@
    ("food for special medical purposes" :> <<"food_specific_groups">>) @@
    ("organic food" :> <<"organic">>) @@
    ("food additive" :> <<"food_additives">>) @@
    ("flavouring" :> <<"flavourings">>) @@
    ("food enzyme" :> <<"food_enzymes">>) @@
    ("gmo" :> <<"gmo">>) @@
    ("vitamin" :> <<"fortification", "food_supplements">>) @@
    ("mineral" :> <<"fortification", "food_supplements">>) @@
    ("health claim" :> <<"nutrition_health_claims">>) @@
    ("nutrition claim" :> <<"nutrition_health_claims">>) @@
    ("food contact material" :> <<"food_contact_materials">>) @@
    ("plastic packaging" :> <<"food_contact_materials">>) @@
    ("allergen" :> <<"labelling_fic">>) @@
    ("nutrition declaration" :> <<"labelling_fic">>) @@
    ("origin labelling" :> <<"labelling_fic", "meat_origin">>) @@
    ("contaminant" :> <<"contaminants">>) @@
    ("official control" :> <<"official_controls">>)

\* DefinedTerm.term_lower
term_lower(dt) == Strip(Lower(dt.term))

\* The keys of EntityIndex.term_to_sources, in insertion order: a key is
\* inserted when its term_lower is met for the first time.
TermKeys(defined_terms) ==
    FirstSeen([i \in DOMAIN defined_terms |-> term_lower(defined_terms[i])])

\* RoutingTable.__init__: the dictionary _category_to_celex, a function of the
\* catalog alone.
CategoryToCelex ==
    [cat \in {CORPUS[d].category : d \in DOMAIN CORPUS} |->
        {d \in DOMAIN CORPUS : CORPUS[d].category = cat}]

\* self._category_to_celex.get(cat, set())
category_to_celex(cat) ==
    IF cat \in DOMAIN CategoryToCelex THEN CategoryToCelex[cat] ELSE {}

\* RoutingTable.__init__: the dictionary _term_to_celex, as the list of its
\* keys in insertion order and the set of document IDs of each key.
RoutingTable(index) ==
    LET lowers == [i \in DOMAIN index.defined_terms |-> term_lower(index.defined_terms[i])]
        keys   == TermKeys(index.defined_terms)
    IN [term_keys     |-> keys,
        term_to_celex |-> [k \in Range(keys) |->
                              {index.defined_terms[i].celex_id :
                                  i \in {j \in DOMAIN lowers : lowers[j] = k}}]]

\* The order in which a set of document IDs is iterated.  The order of a
\* Python set of str is fixed by the hash seed of the process; it is modelled
\* as increasing (catalog position * multiplier(seed)) modulo a prime above the
\* catalog size: seed 1 gives catalog order, seed 2 roughly the reverse.
CatalogIndex ==
    [d \in DOMAIN CORPUS |-> CHOOSE i \in DOMAIN CORPUS_ENTRIES : CORPUS_ENTRIES[i].celex = d]

SetRank(d, seed) ==
    (CatalogIndex[d] * (IF seed % 2 = 1 THEN seed ELSE 37 - seed)) % 37

IterSet(S, seed) ==
    [k \in 1..Cardinality(S) |->
        CHOOSE d \in S : Cardinality({e \in S : SetRank(e, seed) <= SetRank(d, seed)}) = k]

\* RoutingResult(celex_ids=[])
EmptyResult == [celex_ids |-> <<>>, reasons |-> <<>>]

\* Mutant: the reason is appended without the membership test.
add_noReasonCheck(res, celex_id, reason) ==
    LET res1 == IF celex_id \notin DOMAIN res.reasons
                THEN [celex_ids |-> Append(res.celex_ids, celex_id),
                      reasons   |-> (celex_id :> <<>>) @@ res.reasons]
                ELSE res
    IN [res1 EXCEPT !.reasons[celex_id] = Append(@, reason)]

\* RoutingResult.add
add(res, celex_id, reason) ==
    LET res1 == IF celex_id \notin DOMAIN res.reasons
                THEN [celex_ids |-> Append(res.celex_ids, celex_id),
                      reasons   |-> (celex_id :> <<>>) @@ res.reasons]
                ELSE res
    IN IF reason \notin Range(res1.reasons[celex_id])
       THEN [res1 EXCEPT !.reasons[celex_id] = Append(@, reason)]
       ELSE res1

\* A sequence of add calls <<celex_id, reason>> on a result: the result
\* after the calls adds[lo..hi] on res, in order.  The range is bisected:
\* the result of the first half is computed, then the second half applied.
RECURSIVE AddRange(_, _, _, _)
AddRange(res, adds, lo, hi) ==
    IF lo > hi THEN res
    ELSE IF lo = hi THEN add(res, adds[lo][1], adds[lo][2])
    ELSE LET mid == (lo + hi) \div 2
         IN CHOOSE r \in {AddRange(left, adds, mid + 1, hi) :
                             left \in {AddRange(res, adds, lo, mid)}} : TRUE

AddAll(res, adds) == AddRange(res, adds, 1, Len(adds))

\* CORPUS.get(celex, {}).get("title", celex)
TitleOf(celex) == IF celex \in DOMAIN CORPUS THEN CORPUS[celex].title ELSE celex

\* The add calls of the loop over ALWAYS_INCLUDE.
AlwaysAdds(seed) ==
    LET order == IterSet(ALWAYS_INCLUDE, seed)
    IN [i \in DOMAIN order |-> <<order[i], "always included (" \o TitleOf(order[i]) \o ")">>]

\* The attribute values the route calls of the model are made with.
AttributeValues ==
    {" Novel Food", "food additive", "Vitamin", "Food Additive ", "risk claim",
     "unknown claim", "plastic packaging", " ", "claim", "additive"}

\* x.lower().strip() of the attribute values, computed once.
Normalized == [x \in AttributeValues |-> Strip(Lower(x))]

\* x.lower().strip()
norm(x) == IF x \in AttributeValues THEN Normalized[x] ELSE Strip(Lower(x))

\* The list all_terms of route: <<term, source_label>> pairs.
all_terms(args) ==
    (IF args.product_type # "" THEN <<<<norm(args.product_type), "product type">>>> ELSE <<>>)
    \o [i \in DOMAIN args.ingredients |-> <<norm(args.ingredients[i]), "ingredient">>]
    \o [i \in DOMAIN args.claims |-> <<norm(args.claims[i]), "claim">>]
    \o (IF args.packaging # "" THEN <<<<norm(args.packaging), "packaging">>>> ELSE <<>>)
    \o [i \in DOMAIN args.keywords |-> <<norm(args.keywords[i]), "keyword">>]

\* The add calls for the documents of one category ("->" stands for the
\* arrow glyph of the reason text).
CategoryReason(term, label, cat) == label \o ": \"" \o term \o "\" -> category " \o cat

CategoryDocAdds(term, label, cat, seed) ==
    LET order == IterSet(category_to_celex(cat), seed)
    IN [i \in DOMAIN order |-> <<order[i], CategoryReason(term, label, cat)>>]

\* Mutant: only the first category of a manual mapping is expanded.
CategoryAdds_firstOnly(term, label, seed) ==
    IF term \in DOMAIN CATEGORY_ROUTING
    THEN CategoryDocAdds(term, label, CATEGORY_ROUTING[term][1], seed)
    ELSE <<>>

\* Strategy 1: manual category mapping.
CategoryAdds(term, label, seed) ==
    IF term \in DOMAIN CATEGORY_ROUTING
    THEN Flatten([k \in DOMAIN CATEGORY_ROUTING[term] |->
                    CategoryDocAdds(term, label, CATEGORY_ROUTING[term][k], seed)])
    ELSE <<>>

\* Strategy 2: exact entity match.
ExactAdds(term, label, tbl, seed) ==
    IF term \in DOMAIN tbl.term_to_celex
    THEN LET order == IterSet(tbl.term_to_celex[term], seed)
         IN [i \in DOMAIN order |->
                <<order[i], label \o ": \"" \o term \o "\" defined in this regulation">>]
    ELSE <<>>

SubPhraseDocAdds(term, label, defined_term, tbl, seed) ==
    IF Contains(defined_term, term) /\ term # defined_term
    THEN LET order == IterSet(tbl.term_to_celex[defined_term], seed)
         IN [i \in DOMAIN order |->
                <<order[i], label \o ": \"" \o term \o "\" in \"" \o defined_term \o "\"">>]
    ELSE <<>>

\* Mutant: the substring match is applied to single-word terms as well.
SubPhraseAdds_noSpaceGuard(term, label, tbl, seed) ==
    IF Len(term) > 5
    THEN LET keys == tbl.term_keys
         IN Flatten([k \in DOMAIN keys |-> SubPhraseDocAdds(term, label, keys[k], tbl, seed)])
    ELSE <<>>

\* Strategy 3: multi-word containment.
SubPhraseAdds(term, label, tbl, seed) ==
    IF Contains(term, " ") /\ Len(term) > 5
    THEN LET keys == tbl.term_keys
         IN Flatten([k \in DOMAIN keys |-> SubPhraseDocAdds(term, label, keys[k], tbl, seed)])
    ELSE <<>>

\* The add calls of route, in call order.
RouteAdds(args, tbl, seed) ==
    LET terms == all_terms(args)
    IN AlwaysAdds(seed)
       \o Flatten([i \in DOMAIN terms |->
                      CategoryAdds(terms[i][1], terms[i][2], seed)
                   \o ExactAdds(terms[i][1], terms[i][2], tbl, seed)
                   \o SubPhraseAdds(terms[i][1], terms[i][2], tbl, seed)])

\* RoutingTable.route
route(args, tbl, seed) == AddAll(EmptyResult, RouteAdds(args, tbl, seed))

\* The add calls of route_by_category, in call order.
RouteByCategoryAdds(category, seed) ==
    LET order == IterSet(category_to_celex(category), seed)
    IN AlwaysAdds(seed) \o [i \in DOMAIN order |-> <<order[i], "category: " \o category>>]

\* RoutingTable.route_by_category
route_by_category(category, seed) == AddAll(EmptyResult, RouteByCategoryAdds(category, seed))

-----------------------------------------------------------------------------
(* Inputs of the routing table *)

\* DefinedTerm(term, celex_id, article_number, definition_snippet, category)
DefinedTerm(term, celex_id) ==
    [term |-> term, celex_id |-> celex_id, article_number |-> 3,
     definition_snippet |-> "...", category |-> CORPUS[celex_id].category]

TermPool ==
    {DefinedTerm("novel food", "32015R2283"),
     DefinedTerm("food additive", "32008R1333"),
     DefinedTerm("Food additive", "32008R1331"),
     DefinedTerm("Reduction of disease risk claim", "32006R1924")}

\* EntityIndex(defined_terms): lists of distinct terms of the pool.
EntityIndexes ==
    {[defined_terms |-> ts] :
        ts \in {s \in SeqsUpTo(TermPool, MaxTerms) : NoDuplicates(s)}}

IngredientLists ==
    {<<>>, <<"food additive">>, <<"Vitamin", "Food Additive ">>,
     <<"food additive", "food additive">>}

\* <<claims, packaging, keywords>>
OtherAttributes ==
    {<<<<>>, "", <<>>>>,
     <<<<"risk claim">>, "plastic packaging", <<"claim">>>>,
     <<<<"unknown claim">>, " ", <<"additive">>>>}

RouteArgs ==
    {[product_type |-> pt, ingredients |-> ing,
      claims |-> o[1], packaging |-> o[2], keywords |-> o[3]] :
        pt \in {"", " Novel Food"}, ing \in IngredientLists, o \in OtherAttributes}

RouteCategories == {"gmo", "labelling_fic", "unknown"}

ManualDocs == {"32002R0178", "32015R2283"}

ManualReasons == {"reason1", "reason2"}

-----------------------------------------------------------------------------
(* Specification of the routing table: Init draws the entity index and the
   hash seed; the actions are the calls on the table and on a result. *)

InitRoute ==
    /\ ChunkIdle
    /\ StoreIdle
    /\ DocIdle
    /\ entity_index \in EntityIndexes
    /\ table = RoutingTable(entity_index)
    /\ hash_seed \in 1..MaxSeed
    /\ call = [op |-> "new"]
    /\ result = EmptyResult
    /\ added = <<>>

\* result = RoutingResult(celex_ids=[])
NewResult ==
    /\ call' = [op |-> "new"]
    /\ result' = EmptyResult
    /\ added' = <<>>
    /\ UNCHANGED <<entity_index, table, hash_seed, chunkVars, storeVars, docVars>>

\* result.add(celex_id, reason)
Add(celex_id, reason) ==
    /\ Len(added) < MaxAdds
    /\ call' = [op |-> "add"]
    /\ result' = add(result, celex_id, reason)
    /\ added' = Append(added, <<celex_id, reason>>)
    /\ UNCHANGED <<entity_index, table, hash_seed, chunkVars, storeVars, docVars>>

\* result = table.route(...)
Route(args) ==
    /\ call' = [op |-> "route", args |-> args]
    /\ added' = RouteAdds(args, table, hash_seed)
    /\ result' = route(args, table, hash_seed)
    /\ UNCHANGED <<entity_index, table, hash_seed, chunkVars, storeVars, docVars>>

\* result = table.route_by_category(category)
RouteByCategory(category) ==
    /\ call' = [op |-> "route_by_category", category |-> category]
    /\ result' = route_by_category(category, hash_seed)
    /\ added' = RouteByCategoryAdds(category, hash_seed)
    /\ UNCHANGED <<entity_index, table, hash_seed, chunkVars, storeVars, docVars>>

NextRoute ==
    \/ NewResult
    \/ \E c \in ManualDocs, r \in ManualReasons : Add(c, r)
    \/ \E args \in RouteArgs : Route(args)
    \/ \E cat \in RouteCategories : RouteByCategory(cat)

SpecRoute == InitRoute /\ [][NextRoute]_vars

-----------------------------------------------------------------------------
(* Properties of RoutingResult and RoutingTable (SpecRoute) *)

\* A list without its repeats: the first occurrence of each element, in order.
AddedDocs == [i \in DOMAIN added |-> added[i][1]]

\* The reasons passed to add for document c, in call order.
ReasonsOf(adds, c) ==
    LET IsFor(a) == a[1] = c
        calls == SelectSeq(adds, IsFor)
    IN [i \in DOMAIN calls |-> calls[i][2]]

\* C6: after any sequence of add calls on a result created empty (those of
\* route and route_by_category included), celex_ids has no duplicates and
\* lists exactly the keys of reasons in first-added order, and the reason list
\* of a document holds every reason added for it, once, in first-added order.
C6_ResultHasNoDuplicates ==
    /\ NoDuplicates(result.celex_ids)
    /\ result.celex_ids = FirstSeen(AddedDocs)
    /\ DOMAIN result.reasons = Range(result.celex_ids)
    /\ \A c \in DOMAIN result.reasons :
          /\ NoDuplicates(result.reasons[c])
          /\ result.reasons[c] = FirstSeen(ReasonsOf(added, c))

\* C6 witness: a route call has added the same document with the same reason
\* twice, and one document with different reasons.
C6_Witness ==
    /\ call.op = "route"
    /\ \E i, j \in DOMAIN added : i < j /\ added[i] = added[j]
    /\ \E i, j \in DOMAIN added : added[i][1] = added[j][1] /\ added[i][2] # added[j][2]

\* The attribute values supplied to route, lower-cased and trimmed.
Supplied(args) ==
       (IF args.product_type # "" THEN {norm(args.product_type)} ELSE {})
    \cup {norm(args.ingredients[i]) : i \in DOMAIN args.ingredients}
    \cup {norm(args.claims[i]) : i \in DOMAIN args.claims}
    \cup (IF args.packaging # "" THEN {norm(args.packaging)} ELSE {})
    \cup {norm(args.keywords[i]) : i \in DOMAIN args.keywords}

\* The (normalized) terms document d defines in the entity index.
TermsDefinedBy(d) ==
    {Strip(Lower(entity_index.defined_terms[i].term)) :
        i \in {j \in DOMAIN entity_index.defined_terms :
                  entity_index.defined_terms[j].celex_id = d}}

AllDocs ==
    DOMAIN CORPUS
    \cup {entity_index.defined_terms[i].celex_id : i \in DOMAIN entity_index.defined_terms}

\* (1) the catalog tags d with a category CATEGORY_ROUTING maps v to
MatchesCategory(d, v) ==
    /\ v \in DOMAIN CATEGORY_ROUTING
    /\ d \in DOMAIN CORPUS
    /\ CORPUS[d].category \in Range(CATEGORY_ROUTING[v])

\* (2) d defines a term equal to v
MatchesTerm(d, v) == v \in TermsDefinedBy(d)

\* (3) v has a space, more than 5 characters, and is a strict substring of a
\* term d defines
MatchesSubPhrase(d, v) ==
    /\ Contains(v, " ")
    /\ Len(v) > 5
    /\ \E t \in TermsDefinedBy(d) : Contains(t, v) /\ t # v

Matches(d, v) == MatchesCategory(d, v) \/ MatchesTerm(d, v) \/ MatchesSubPhrase(d, v)

ScenarioArgs ==
    [product_type |-> "", ingredients |-> <<"food additive">>,
     claims |-> <<>>, packaging |-> "", keywords |-> <<>>]

MatchesNothing(v) ==
    /\ v \notin DOMAIN CATEGORY_ROUTING
    /\ \A d \in AllDocs : ~MatchesTerm(d, v) /\ ~MatchesSubPhrase(d, v)

\* C8: route with no attribute, or only with values that match none of the
\* strategies, returns exactly the always-included documents, each with only
\* its "always included" reason.
C8_NoMatchGivesAlwaysIncluded ==
    (call.op = "route" /\ \A v \in Supplied(call.args) : MatchesNothing(v))
        => /\ Range(result.celex_ids) = ALWAYS_INCLUDE
           /\ Len(result.celex_ids) = Cardinality(ALWAYS_INCLUDE)
           /\ DOMAIN result.reasons = ALWAYS_INCLUDE
           /\ \A d \in ALWAYS_INCLUDE :
                 result.reasons[d] = <<"always included (" \o CORPUS[d].title \o ")">>

\* C8 witness: route was called with values only that match nothing, one of
\* them a single word contained in a defined term.
C8_Witness ==
    /\ call.op = "route"
    /\ Supplied(call.args) # {}
    /\ \A v \in Supplied(call.args) : MatchesNothing(v)
    /\ \E v \in Supplied(call.args) : \E d \in AllDocs : \E t \in TermsDefinedBy(d) :
          v # "" /\ Contains(t, v)
    /\ Len(result.celex_ids) = 2

-----------------------------------------------------------------------------
(* src/indexing/vector_store.py *)

\* Optional values: None is the empty sequence, a value x is <<x>>.
None == <<>>

Some(x) == <<x>>

\* ArticleChunk.context_header; "-" stands for the dash before the title.
context_header(c) ==
    LET p1 == "[" \o c.celex_id \o "]"
        p2 == IF c.chapter # "" THEN p1 \o " " \o c.chapter ELSE p1
        p3 == IF c.section # "" THEN p2 \o " " \o c.section ELSE p2
        p4 == p3 \o " Article " \o ToString(c.article_number)
        p5 == IF c.article_title # "" THEN p4 \o " - " \o c.article_title ELSE p4
    IN IF c.total_chunks > 1
       THEN p5 \o " (part " \o ToString(c.chunk_index + 1) \o "/"
               \o ToString(c.total_chunks) \o ")"
       ELSE p5

\* ArticleChunk.text_with_context: the header, an empty line, the text.
text_with_context(c) == Str(context_header(c)) \o Str("") \o c.text

\* ArticleChunk.metadata
metadata(c) ==
    [celex_id       |-> c.celex_id,
     article_number |-> c.article_number,
     article_title  |-> c.article_title,
     chapter        |-> c.chapter,
     section        |-> c.section,
     chunk_index    |-> c.chunk_index,
     total_chunks   |-> c.total_chunks,
     chunk_id       |-> chunk_id(c),
     char_count     |-> c.char_count]

\* The chunks offered to the store: two articles of one document and one of
\* another, each a whole-article chunk.
StoreArticles ==
    <<Article("32002R0178", 1, "Scope", Str("aim and scope")),
      Article("32002R0178", 2, "Definitions", Str("food means")),
      Article("32015R2283", 1, "", Str("novel food"))>>

StoreChunks == {chunk_article(StoreArticles[i], MAX_CHUNK_CHARS)[1] : i \in DOMAIN StoreArticles}

ChunkLists == SeqsUpTo(StoreChunks, MaxChunks)

Queries == {"food safety", "novel food"}

\* Embedding vectors are fixed-point: a unit vector has integer coordinates
\* of norm EmbeddingScale, a score is a dot product scaled by its square.
EmbeddingScale == 5

\* model.encode(..., normalize_embeddings=True): the sentence encoder is a
\* fixed function from a text to a unit vector, given here by its table on
\* the texts of the model.
EncoderTable ==
    (text_with_context(chunk_article(StoreArticles[1], MAX_CHUNK_CHARS)[1]) :> <<3, 4>>) @@
    (text_with_context(chunk_article(StoreArticles[2], MAX_CHUNK_CHARS)[1]) :> <<4, 3>>) @@
    (text_with_context(chunk_article(StoreArticles[3], MAX_CHUNK_CHARS)[1]) :> <<3, -4>>) @@
    (Str("food safety") :> <<5, 0>>) @@
    (Str("novel food") :> <<0, 5>>)

encode(text) == EncoderTable[text]

\* embeddings @ query_embedding, one row
Dot(u, v) == SumSeq([i \in DOMAIN u |-> u[i] * v[i]])

\* -np.inf: below every score
NegInf == -1000000

\* json.dump / json.load of a value made of strings, integers, lists and
\* dictionaries with string keys: the file holds the value's JSON text, and
\* reading it gives an equal value back.
json_dump(v) == [json |-> v]

json_load(f) == f.json

\* np.save / np.load of a float32 array
np_save(a) == [npy |-> a]

np_load(f) == f.npy

\* path.exists()
Exists(file) == file # None

\* The in-memory index of a store as one value.
MkIndex(i, t, m, e) == [ids |-> i, texts |-> t, metadatas |-> m, embeddings |-> e]

\* VectorStore.__init__, before _load
EmptyIndex == MkIndex(<<>>, <<>>, <<>>, None)

\* Directory without files
EmptyDisk == [embeddings_npy |-> None, metadata_json |-> None, texts_json |-> None]

\* VectorStore.count
count(ix) == Len(ix.ids)

\* VectorStore._save: the directory after the call
save(ix, d) ==
    IF ix.embeddings = None
    THEN d
    ELSE [embeddings_npy |-> Some(np_save(ix.embeddings[1])),
          metadata_json  |-> Some(json_dump([ids |-> ix.ids, metadatas |-> ix.metadatas])),
          texts_json     |-> Some(json_dump(ix.texts))]

\* VectorStore._save stopped by an error of the file system after n of its
\* three files were written: the directory as it is left.
save_interrupted(ix, d, n) ==
    IF ix.embeddings = None
    THEN d
    ELSE [embeddings_npy |-> IF n >= 1 THEN save(ix, d).embeddings_npy ELSE d.embeddings_npy,
          metadata_json  |-> IF n >= 2 THEN save(ix, d).metadata_json ELSE d.metadata_json,
          texts_json     |-> d.texts_json]

\* Mutant: each artifact that exists is loaded, whether or not the others
\* exist.
load_eachPresent(ix, d) ==
    MkIndex(IF Exists(d.metadata_json) THEN json_load(d.metadata_json[1]).ids ELSE ix.ids,
            IF Exists(d.texts_json) THEN json_load(d.texts_json[1]) ELSE ix.texts,
            IF Exists(d.metadata_json) THEN json_load(d.metadata_json[1]).metadatas
            ELSE ix.metadatas,
            IF Exists(d.embeddings_npy) THEN Some(np_load(d.embeddings_npy[1]))
            ELSE ix.embeddings)

\* VectorStore._load: the index after the call
load(ix, d) ==
    IF ~(Exists(d.embeddings_npy) /\ Exists(d.metadata_json) /\ Exists(d.texts_json))
    THEN ix
    ELSE MkIndex(json_load(d.metadata_json[1]).ids,
                 json_load(d.texts_json[1]),
                 json_load(d.metadata_json[1]).metadatas,
                 Some(np_load(d.embeddings_npy[1])))

\* VectorStore.index_chunks: the index after the call
index_chunks(ix, cs) ==
    IF cs = <<>>
    THEN ix
    ELSE MkIndex([i \in DOMAIN cs |-> chunk_id(cs[i])],
                 [i \in DOMAIN cs |-> text_with_context(cs[i])],
                 [i \in DOMAIN cs |-> metadata(cs[i])],
                 Some([i \in DOMAIN cs |-> encode(text_with_context(cs[i]))]))

\* `if celex_ids:` is true of a list that is given and not empty
Truthy(celex_ids) == celex_ids # None /\ celex_ids[1] # <<>>

\* Mutant: the filter is not applied.
Mask_allOnes(ix, celex_ids) == [i \in DOMAIN ix.ids |-> TRUE]

\* The mask of search
Mask(ix, celex_ids) ==
    IF Truthy(celex_ids)
    THEN [i \in DOMAIN ix.metadatas |-> ix.metadatas[i].celex_id \in Range(celex_ids[1])]
    ELSE [i \in DOMAIN ix.ids |-> TRUE]

\* int(mask.sum())
MaskSum(mask) == Cardinality({i \in DOMAIN mask : mask[i]})

\* scores after scores[~mask] = -np.inf
Scores(ix, q, mask) ==
    [i \in DOMAIN ix.ids |-> IF mask[i] THEN Dot(ix.embeddings[1][i], q) ELSE NegInf]

Min(a, b) == IF a <= b THEN a ELSE b

\* np.argpartition(scores, -k)[-k:] as a set of indices: for k > 0 the k
\* last positions, for k = 0 every position ([-0:] is the whole array), for
\* k < 0 the positions from -k on.  The positions after the pivot hold
\* scores at least as large as the others; which of several equal scores
\* land there is not determined.
TopSize(N, k) == IF k > 0 THEN k ELSE N + k

TopSets(scores, m) ==
    {T \in SUBSET DOMAIN scores :
        /\ Cardinality(T) = m
        /\ \A i \in T : \A j \in (DOMAIN scores) \ T : scores[i] >= scores[j]}

\* Mutant: the selected indices are left in any order.
Orderings_unsorted(scores, T) ==
    {p \in [1..Cardinality(T) -> T] :
        \A a, b \in 1..Cardinality(T) : a # b => p[a] # p[b]}

\* top_indices[np.argsort(scores[top_indices])[::-1]]: T in non-increasing
\* score order; the order of equal scores is not determined.
Orderings(scores, T) ==
    {p \in [1..Cardinality(T) -> T] :
        /\ \A a, b \in 1..Cardinality(T) : a # b => p[a] # p[b]
        /\ \A a, b \in 1..Cardinality(T) : a < b => scores[p[a]] >= scores[p[b]]}

\* The output loop of search: entries at -inf are skipped.
Results(ix, scores, p) ==
    LET Finite(i) == scores[i] # NegInf
        kept == SelectSeq(p, Finite)
    IN [j \in DOMAIN kept |->
           [chunk_id |-> ix.ids[kept[j]],
            text     |-> ix.texts[kept[j]],
            metadata |-> ix.metadatas[kept[j]],
            score    |-> scores[kept[j]]]]

Returned(v) == [output |-> v, error |-> "none"]

Raised(e) == [output |-> <<>>, error |-> e]

\* The row count of the embedding matrix
Rows(ix) == Len(ix.embeddings[1])

\* The output loop of search over the ordering p: self._texts[idx] raises
\* IndexError for an index past the end of the text list.
Output(ix, scores, p) ==
    IF \E a \in DOMAIN p : scores[p[a]] # NegInf /\ p[a] > Len(ix.texts)
    THEN Raised("IndexError")
    ELSE Returned(Results(ix, scores, p))

\* VectorStore.search: the outcomes of a call, each a returned list or a
\* raised exception.  scores has one entry per row of the matrix and the
\* mask one per chunk ID: scores[~mask] raises IndexError when the two
\* lengths differ.  argpartition raises ValueError when kth = -k is not
\* below the number of rows.
search(ix, query, celex_ids, n_results) ==
    IF ix.embeddings = None \/ Len(ix.ids) = 0
    THEN {Returned(<<>>)}
    ELSE LET q      == encode(Str(query))
             mask   == Mask(ix, celex_ids)
             scores == Scores(ix, q, mask)
             N      == Len(ix.ids)
             k      == Min(n_results, MaskSum(mask))
         IN IF Truthy(celex_ids) /\ MaskSum(mask) = 0
            THEN {Returned(<<>>)}
            ELSE IF Rows(ix) # N
            THEN {Raised("IndexError")}
            ELSE IF k < 0 /\ -k >= N
            THEN {Raised("ValueError")}
            ELSE {Output(ix, scores, p) :
                    p \in UNION {Orderings(scores, T) : T \in TopSets(scores, TopSize(N, k))}}

\* The values of the arguments of search
NResultsValues == {-3, -1, 0, 1, 2, 10}

FilterValues ==
    {None, Some(<<>>), Some(<<"32002R0178">>), Some(<<"32015R2283">>),
     Some(<<"32002R0178", "32015R2283">>), Some(<<"32099R9999">>)}

\* The index of the store as one value.
Index == MkIndex(ids, texts, metadatas, embeddings)

SetIndex(ix) ==
    /\ ids' = ix.ids
    /\ texts' = ix.texts
    /\ metadatas' = ix.metadatas
    /\ embeddings' = ix.embeddings

-----------------------------------------------------------------------------
(* Specification of the vector store: Init is a store constructed on an
   empty directory; the actions are the calls on the store and the
   construction of a new store on the same directory. *)

InitStore ==
    /\ ChunkIdle
    /\ RouteIdle
    /\ DocIdle
    /\ ids = <<>>
    /\ texts = <<>>
    /\ metadatas = <<>>
    /\ embeddings = None
    /\ disk = EmptyDisk
    /\ store_call = [op |-> "init"]
    /\ indexed = 0
    /\ output = <<>>
    /\ error = "none"

\* store = VectorStore(persist_dir)
Open ==
    /\ store_call' = [op |-> "init"]
    /\ SetIndex(load(EmptyIndex, disk))
    /\ indexed' = 0
    /\ output' = <<>>
    /\ error' = "none"
    /\ UNCHANGED <<disk, chunkVars, routeVars, docVars>>

\* store.index_chunks(chunks)
IndexChunks(cs) ==
    /\ store_call' = [op |-> "index_chunks", chunks |-> cs]
    /\ SetIndex(index_chunks(Index, cs))
    /\ disk' = IF cs = <<>> THEN disk ELSE save(index_chunks(Index, cs), disk)
    /\ indexed' = Len(cs)
    /\ output' = <<>>
    /\ error' = "none"
    /\ UNCHANGED <<chunkVars, routeVars, docVars>>

\* store.search(query, celex_ids, n_results)
Search(query, celex_ids, n_results) ==
    /\ store_call' = [op |-> "search", query |-> query, celex_ids |-> celex_ids,
                      n_results |-> n_results]
    /\ \E r \in search(Index, query, celex_ids, n_results) :
          /\ output' = r.output
          /\ error' = r.error
    /\ indexed' = 0
    /\ UNCHANGED <<indexVars, chunkVars, routeVars, docVars>>

\* store.delete_all()
DeleteAll ==
    /\ store_call' = [op |-> "delete_all"]
    /\ SetIndex(EmptyIndex)
    /\ disk' = EmptyDisk
    /\ indexed' = 0
    /\ output' = <<>>
    /\ error' = "none"
    /\ UNCHANGED <<chunkVars, routeVars, docVars>>

\* store.index_chunks(chunks) where a write of _save fails (OSError) after n
\* files: the index in memory is already replaced, the call raises.
IndexChunksSaveFails(cs, n) ==
    /\ cs # <<>>
    /\ store_call' = [op |-> "index_chunks", chunks |-> cs]
    /\ SetIndex(index_chunks(Index, cs))
    /\ disk' = save_interrupted(index_chunks(Index, cs), disk, n)
    /\ indexed' = 0
    /\ output' = <<>>
    /\ error' = "OSError"
    /\ UNCHANGED <<chunkVars, routeVars, docVars>>

NextStore ==
    \/ Open
    \/ \E cs \in ChunkLists : IndexChunks(cs)
    \/ \E q \in Queries, f \in FilterValues, n \in NResultsValues : Search(q, f, n)
    \/ DeleteAll

SpecStore == InitStore /\ [][NextStore]_vars

-----------------------------------------------------------------------------
(* Specification of the store and its snapshot: the calls of the store, the
   construction of a new store on the same directory, and saves that stop
   between two file writes. *)

\* The chunk lists indexed here: two one-chunk lists and a two-chunk list.
SnapshotLists ==
    LET c(i) == chunk_article(StoreArticles[i], MAX_CHUNK_CHARS)[1]
    IN {<<c(1)>>, <<c(3)>>, <<c(1), c(2)>>}

\* The number of files _save has written when it stops
FilesWritten == 0..2

NextSnapshot ==
    \/ Open
    \/ \E cs \in SnapshotLists \cup {<<>>} : IndexChunks(cs)
    \/ \E cs \in SnapshotLists, n \in FilesWritten : IndexChunksSaveFails(cs, n)
    \/ \E q \in Queries, f \in FilterValues, n \in NResultsValues : Search(q, f, n)
    \/ DeleteAll

SpecSnapshot == InitStore /\ [][NextSnapshot]_vars

-----------------------------------------------------------------------------
(* Properties of search *)

\* The celex_id values of the results of the last search
OutputDocs == {output[i].metadata.celex_id : i \in DOMAIN output}

\* The celex_id values of the indexed chunks
IndexedDocs == {metadatas[i].celex_id : i \in DOMAIN metadatas}

IsSearch == store_call.op = "search"

\* C9: for every index, query, n_results and non-empty document-ID filter,
\* every result returned by search has a metadata celex_id that is in the
\* filter.
C9_ResultsWithinFilter ==
    (IsSearch /\ store_call.celex_ids # None /\ store_call.celex_ids[1] # <<>>)
        => OutputDocs \subseteq Range(store_call.celex_ids[1])

\* A search restricted to one document on an index that also holds a chunk
\* of another document has returned the chunks of the first.
C9_Witness ==
    /\ IsSearch
    /\ store_call.celex_ids = Some(<<"32002R0178">>)
    /\ store_call.n_results = 10
    /\ IndexedDocs = {"32002R0178", "32015R2283"}
    /\ error = "none"
    /\ Len(output) = 1
    /\ OutputDocs = {"32002R0178"}

\* C10: search with a supplied document-ID filter to which no indexed
\* chunk's celex_id belongs (an empty list of IDs included) returns the
\* empty list and raises no error, for every query and n_results.
C10_NoMatchingFilterGivesEmpty ==
    (IsSearch /\ store_call.celex_ids # None
              /\ IndexedDocs \cap Range(store_call.celex_ids[1]) = {})
        => (error = "none" /\ output = <<>>)

-----------------------------------------------------------------------------
(* Properties of the number and order of the results *)

\* The indexed chunks that pass the filter of the last search: all of them
\* when no filter was given.
Eligible ==
    IF store_call.celex_ids = None
    THEN DOMAIN ids
    ELSE {i \in DOMAIN ids : metadatas[i].celex_id \in Range(store_call.celex_ids[1])}

\* C11: for every non-empty index, filter and n_results >= 0, search returns
\* exactly min(n_results, E) results, E being the number of indexed chunks
\* that pass the filter; in particular never more than n_results.
C11_ReturnsMinOfNResultsAndEligible ==
    (IsSearch /\ Len(ids) > 0 /\ store_call.n_results >= 0)
        => (error = "none"
            /\ Len(output) = Min(store_call.n_results, Cardinality(Eligible)))

\* The query vector of the last search
QueryVector == encode(Str(store_call.query))

\* The chunk IDs of the results of the last search
OutputIds == {output[j].chunk_id : j \in DOMAIN output}

\* C12: the results of search are in non-increasing score order, each
\* result's score is the dot product of that chunk's stored vector and the
\* query vector, and the results are the highest-scoring eligible chunks: no
\* eligible chunk that is left out has a strictly higher score than a
\* returned one.
C12_ResultsAreTopScoresInOrder ==
    (IsSearch /\ error = "none")
        => /\ \A a, b \in DOMAIN output : a < b => output[a].score >= output[b].score
           /\ \A j \in DOMAIN output : \E i \in DOMAIN ids :
                 /\ ids[i] = output[j].chunk_id
                 /\ output[j].score = Dot(embeddings[1][i], QueryVector)
           /\ \A j \in DOMAIN output : \A i \in Eligible :
                 ids[i] \notin OutputIds
                    => Dot(embeddings[1][i], QueryVector) <= output[j].score

\* A search for one result on an index of two chunks with different scores
\* has returned one chunk and left out the chunk with the lower score.
C12_Witness ==
    /\ IsSearch
    /\ error = "none"
    /\ Len(ids) = 2
    /\ store_call.celex_ids = None
    /\ store_call.n_results = 1
    /\ Len(output) = 1
    /\ \E i \in DOMAIN ids : Dot(embeddings[1][i], QueryVector) < output[1].score

-----------------------------------------------------------------------------
(* Properties of indexing and persistence *)

\* The index that holds exactly the chunks cs, in order.
IndexOf(cs) ==
    MkIndex([i \in DOMAIN cs |-> chunk_id(cs[i])],
            [i \in DOMAIN cs |-> text_with_context(cs[i])],
            [i \in DOMAIN cs |-> metadata(cs[i])],
            IF cs = <<>> THEN None
            ELSE Some([i \in DOMAIN cs |-> encode(text_with_context(cs[i]))]))

\* Two indexes hold the same chunks in the same order; an index without
\* rows and an index without an embedding matrix both hold none.
SameContents(a, b) ==
    /\ a.ids = b.ids
    /\ a.texts = b.texts
    /\ a.metadatas = b.metadatas
    /\ (IF a.embeddings = None THEN <<>> ELSE a.embeddings[1])
          = (IF b.embeddings = None THEN <<>> ELSE b.embeddings[1])

\* C13: after index_chunks(chunks), for every chunk list (empty or not) and
\* whatever the store held before, the return value and count both equal
\* len(chunks), and the in-memory index and the persisted snapshot hold
\* exactly the given chunks in order, nothing of the earlier index left.
C13_IndexChunksReplacesIndex ==
    (store_call.op = "index_chunks" /\ error = "none")
        => /\ indexed = Len(store_call.chunks)
           /\ count(Index) = Len(store_call.chunks)
           /\ SameContents(Index, IndexOf(store_call.chunks))
           /\ SameContents(load(EmptyIndex, disk), IndexOf(store_call.chunks))

\* The row count of the embedding matrix of the store, 0 without a matrix
RowCount == IF embeddings = None THEN 0 ELSE Len(embeddings[1])

\* Position i of the four parallel arrays describes one chunk.
AlignedAt(i) ==
    \E c \in StoreChunks :
        /\ ids[i] = chunk_id(c)
        /\ texts[i] = text_with_context(c)
        /\ metadatas[i] = metadata(c)
        /\ embeddings[1][i] = encode(text_with_context(c))

\* C14: in every reachable state, after any sequence of construction or
\* reload, index_chunks and delete_all, including a reload from a snapshot
\* whose three artifacts do not belong to the same save, the ID list, the
\* text list, the metadata list and the embedding rows have the same length
\* and are aligned: a snapshot that is not length-consistent is treated as
\* no snapshot.
C14_ParallelArraysAligned ==
    /\ Len(texts) = Len(ids)
    /\ Len(metadatas) = Len(ids)
    /\ RowCount = Len(ids)
    /\ \A i \in DOMAIN ids : AlignedAt(i)

\* At least one of the three artifacts of the snapshot is missing.
ArtifactMissing ==
    ~(Exists(disk.embeddings_npy) /\ Exists(disk.metadata_json) /\ Exists(disk.texts_json))

\* C15: opening a VectorStore on a directory where at least one of the
\* three artifacts is missing raises no error and yields an empty index: count
\* is 0 and search returns the empty list for every query, filter and
\* n_results.
C15_MissingArtifactGivesEmptyIndex ==
    /\ (store_call.op = "init" /\ ArtifactMissing)
          => /\ error = "none"
             /\ count(Index) = 0
             /\ \A q \in Queries, f \in FilterValues, n \in NResultsValues :
                   search(Index, q, f, n) = {Returned(<<>>)}
    /\ (IsSearch /\ ArtifactMissing /\ count(Index) = 0)
          => (error = "none" /\ output = <<>>)

\* A store was opened on a directory that holds embeddings.npy and
\* metadata.json of a two-chunk index and no texts.json.
C15_Witness ==
    /\ store_call.op = "init"
    /\ Exists(disk.embeddings_npy)
    /\ Exists(disk.metadata_json)
    /\ Len(json_load(disk.metadata_json[1]).ids) = 2
    /\ ~Exists(disk.texts_json)
    /\ count(Index) = 0

\* C16: after index_chunks(chunks) on one store, a new VectorStore opened
\* on the same directory holds the same ids, texts, metadata and embeddings
\* in the same order (count equal to len(chunks)) and returns the same
\* search results as the first store for every query, filter and n_results.
C16_ReopenedStoreEqualsIndexedStore ==
    [][(store_call.op = "index_chunks" /\ error = "none" /\ store_call'.op = "init")
          => /\ SameContents(Index', Index)
             /\ count(Index') = Len(store_call.chunks)
             /\ \A q \in Queries, f \in FilterValues, n \in NResultsValues :
                   search(Index', q, f, n) = search(Index, q, f, n)]_vars

-----------------------------------------------------------------------------
(* src/extraction/entity_extractor.py

   The text of an article is represented by its items, in text order: a
   definition clause  'raw' means body  or a mention of a legal act
   lead number/year.  The string of the text is the items joined by "; ".
   On such a text _TERM_PATTERN matches once per definition clause, with
   group(1) = raw (raw starts with a character that is not whitespace and
   holds no quote), and _CELEX_REF_PATTERN matches once per mention, with
   group(1) = number and group(2) = year. *)

MaxItems == 2

DefItem(raw, body) ==
    [kind |-> "def", raw |-> raw, body |-> body, lead |-> "", number |-> "", year |-> ""]

RefItem(lead, number, year) ==
    [kind |-> "ref", raw |-> "", body |-> "", lead |-> lead, number |-> number, year |-> year]

ItemText(it) ==
    IF it.kind = "def"
    THEN "'" \o it.raw \o "' means " \o it.body
    ELSE it.lead \o it.number \o "/" \o it.year

\* article.text as a string
RECURSIVE TextOf(_)
TextOf(items) ==
    IF items = <<>> THEN ""
    ELSE IF Len(items) = 1 THEN ItemText(items[1])
    ELSE TextOf(SubSeq(items, 1, Len(items) - 1)) \o "; " \o ItemText(items[Len(items)])

\* The offset in the text at which item k starts
ItemStart(items, k) == IF k = 1 THEN 0 ELSE Len(TextOf(SubSeq(items, 1, k - 1))) + 2

\* pattern.finditer(text): the matches in text order.  A match of the term
\* pattern runs from the opening quote to the end of "means".
MatchOf(items, k) ==
    LET it == items[k]
        start == ItemStart(items, k)
    IN IF it.kind = "def"
       THEN [group1 |-> it.raw, group2 |-> "", start |-> start,
             end |-> start + 1 + Len(it.raw) + 1 + Len(" means")]
       ELSE [group1 |-> it.number, group2 |-> it.year, start |-> start,
             end |-> start + Len(ItemText(it))]

finditer(kind, items) ==
    LET IsKind(k) == items[k].kind = kind
        at == SelectSeq([k \in DOMAIN items |-> k], IsKind)
    IN [j \in DOMAIN at |-> MatchOf(items, at[j])]

\* text[a:b] for 0 <= a
Slice(text, a, b) == SubSeq(text, a + 1, IF b < Len(text) THEN b ELSE Len(text))

\* s.find(c): the offset of the first c in s, or -1
Find(s, c) ==
    LET at == {i \in 1..Len(s) : CharAt(s, i) = c}
    IN IF at = {} THEN -1 ELSE (CHOOSE i \in at : \A j \in at : i <= j) - 1

\* re.sub(r"\s+", " ", s), by bisection: a whitespace character becomes a
\* space if it starts a run of whitespace and nothing otherwise.
RECURSIVE CollapseRange(_, _, _)
CollapseRange(s, lo, hi) ==
    IF lo > hi THEN ""
    ELSE IF lo = hi
    THEN IF ~IsSpace(CharAt(s, lo)) THEN CharAt(s, lo)
         ELSE IF lo > 1 /\ IsSpace(CharAt(s, lo - 1)) THEN "" ELSE " "
    ELSE LET mid == (lo + hi) \div 2
         IN CollapseRange(s, lo, mid) \o CollapseRange(s, mid + 1, hi)

\* s.rstrip(",;.")
RStripPunct(s) ==
    LET keep == {i \in 1..Len(s) : CharAt(s, i) \notin {",", ";", "."}}
    IN IF keep = {} THEN "" ELSE SubSeq(s, 1, CHOOSE i \in keep : \A j \in keep : j <= i)

\* _normalize_term
normalize_term(raw) == RStripPunct(CollapseRange(Strip(raw), 1, Len(Strip(raw))))

\* CORPUS.get(celex_id, {}).get("category", "")
CategoryOf(celex_id) == IF celex_id \in DOMAIN CORPUS THEN CORPUS[celex_id].category ELSE ""

MkDefinedTerm(term, celex_id, article_number, definition_snippet, category) ==
    [term |-> term, celex_id |-> celex_id, article_number |-> article_number,
     definition_snippet |-> definition_snippet, category |-> category]

CrossReference(source_celex, source_article, target_regulation_number, context) ==
    [source_celex |-> source_celex, source_article |-> source_article,
     target_regulation_number |-> target_regulation_number, context |-> context]

\* The definition snippet of a match
SnippetOf(text, m) ==
    LET snippet == Strip(Slice(text, m.end, m.end + 200))
        sentence_end == Find(snippet, ";")
    IN IF sentence_end > 50 THEN SubSeq(snippet, 1, sentence_end) ELSE snippet

\* The loop of extract_defined_terms over the matches from j on
RECURSIVE TermLoop(_, _, _, _, _)
TermLoop(a, ms, j, terms, seen_terms) ==
    IF j > Len(ms) THEN terms
    ELSE LET term == normalize_term(ms[j].group1)
         IN IF term = "" \/ Len(term) < 2
            THEN TermLoop(a, ms, j + 1, terms, seen_terms)
            ELSE IF Lower(term) \in seen_terms
            THEN TermLoop(a, ms, j + 1, terms, seen_terms)
            ELSE TermLoop(a, ms, j + 1,
                          Append(terms, MkDefinedTerm(term, a.celex_id, a.article_number,
                                                      SnippetOf(TextOf(a.text), ms[j]),
                                                      CategoryOf(a.celex_id))),
                          seen_terms \cup {Lower(term)})

extract_defined_terms(a) ==
    IF TextOf(a.text) = "" THEN <<>>
    ELSE TermLoop(a, finditer("def", a.text), 1, <<>>, {})

\* The loop of extract_cross_references over the matches from j on
RECURSIVE RefLoop(_, _, _, _, _)
RefLoop(a, ms, j, refs, seen) ==
    IF j > Len(ms) THEN refs
    ELSE LET reg_number == ms[j].group1 \o "/" \o ms[j].group2
             text == TextOf(a.text)
             start == IF ms[j].start - 30 > 0 THEN ms[j].start - 30 ELSE 0
         IN IF reg_number \in seen
            THEN RefLoop(a, ms, j + 1, refs, seen)
            ELSE RefLoop(a, ms, j + 1,
                         Append(refs, CrossReference(a.celex_id, a.article_number, reg_number,
                                                     Slice(text, start, ms[j].end + 50))),
                         seen \cup {reg_number})

extract_cross_references(a) ==
    IF TextOf(a.text) = "" THEN <<>>
    ELSE RefLoop(a, finditer("ref", a.text), 1, <<>>, {})

\* The articles of the regulations, in the order extract_entities visits them
AllArticles(regs) == Flatten([r \in DOMAIN regs |-> regs[r].articles])

IsDefinitionsLike(a) ==
    Contains(Lower(a.title), "definition") \/ Contains(Lower(a.title), "scope")

\* extract_entities: the EntityIndex
extract_entities(regs) ==
    LET arts == AllArticles(regs)
    IN [defined_terms |->
            Flatten([i \in DOMAIN arts |->
                        IF IsDefinitionsLike(arts[i]) THEN extract_defined_terms(arts[i])
                        ELSE <<>>]),
        cross_references |->
            Flatten([i \in DOMAIN arts |-> extract_cross_references(arts[i])])]

\* The items of the article texts: clauses that define food in several
\* spellings, feed, and a term of one letter; mentions of two legal acts,
\* one of them in two wordings.
LongBody ==
    "any substance or product, whether processed or not, intended to be ingested by humans"

ExtItems ==
    {DefItem("food", "any substance"), DefItem("Food", "nourishment"),
     DefItem("food ,", "edibles"), DefItem("feed", LongBody), DefItem("a ", "one"),
     RefItem("Regulation (EC) No ", "178", "2002"),
     RefItem("Commission Regulation (EC) No ", "178", "2002"),
     RefItem("Regulation (EU) ", "2015", "2283")}

ExtTexts == SeqsUpTo(ExtItems, MaxItems)

ExtArticles == {Article("32002R0178", 2, "Definitions", t) : t \in ExtTexts}

\* The texts and articles of the documents given to extract_entities
ExtCorpusTexts ==
    {<<>>,
     <<DefItem("food", "any substance"), RefItem("Regulation (EC) No ", "178", "2002")>>,
     <<DefItem("Food", "nourishment"), RefItem("Regulation (EU) ", "2015", "2283"),
       RefItem("Commission Regulation (EC) No ", "178", "2002")>>}

ExtTitles == {"Definitions", "Scope and aim", "General provisions"}

ExtCorpusArticles(d) ==
    {Article(d, n, title, t) : n \in 1..2, title \in ExtTitles, t \in ExtCorpusTexts}

\* ParsedRegulation
ParsedRegulation(d, articles) == [celex_id |-> d, title |-> d, articles |-> articles]

\* One document of up to MaxArticles articles, alone or followed by a
\* second document that defines the same term.
ExtCorpora ==
    LET first == {ParsedRegulation("32002R0178", as) :
                     as \in SeqsUpTo(ExtCorpusArticles("32002R0178"), MaxArticles)}
        second == ParsedRegulation("32015R2283",
                      <<Article("32015R2283", 3, "Definitions",
                                <<DefItem("food", "as in the general food law")>>)>>)
    IN {<<r>> : r \in first} \cup {<<r, second>> : r \in first}

-----------------------------------------------------------------------------
(* Specification of the extraction from one article: Init is an article,
   the actions are the two extraction functions. *)

InitExtractArticle ==
    /\ ChunkIdle
    /\ RouteIdle
    /\ StoreIdle
    /\ ParseIdle
    /\ CallersIdle
    /\ DownloadIdle
    /\ ext_article \in ExtArticles
    /\ ext_regs = <<>>
    /\ ext_call = [op |-> "none"]
    /\ ext_terms = <<>>
    /\ ext_refs = <<>>

\* extract_defined_terms(article)
ExtractDefinedTerms ==
    /\ ext_call' = [op |-> "extract_defined_terms"]
    /\ ext_terms' = extract_defined_terms(ext_article)
    /\ ext_refs' = <<>>
    /\ UNCHANGED <<ext_article, ext_regs, parseVars, callers, dlVars, chunkVars, routeVars, storeVars>>

\* extract_cross_references(article)
ExtractCrossReferences ==
    /\ ext_call' = [op |-> "extract_cross_references"]
    /\ ext_terms' = <<>>
    /\ ext_refs' = extract_cross_references(ext_article)
    /\ UNCHANGED <<ext_article, ext_regs, parseVars, callers, dlVars, chunkVars, routeVars, storeVars>>

NextExtractArticle == ExtractDefinedTerms \/ ExtractCrossReferences

SpecExtractArticle == InitExtractArticle /\ [][NextExtractArticle]_vars

-----------------------------------------------------------------------------
(* Specification of the extraction from a corpus *)

InitExtract ==
    /\ ChunkIdle
    /\ RouteIdle
    /\ StoreIdle
    /\ ParseIdle
    /\ CallersIdle
    /\ DownloadIdle
    /\ ext_article = <<>>
    /\ ext_regs \in ExtCorpora
    /\ ext_call = [op |-> "none"]
    /\ ext_terms = <<>>
    /\ ext_refs = <<>>

\* extract_entities(regulations)
ExtractEntities ==
    /\ ext_call' = [op |-> "extract_entities"]
    /\ ext_terms' = extract_entities(ext_regs).defined_terms
    /\ ext_refs' = extract_entities(ext_regs).cross_references
    /\ UNCHANGED <<ext_article, ext_regs, parseVars, callers, dlVars, chunkVars, routeVars, storeVars>>

NextExtract == ExtractEntities

SpecExtract == InitExtract /\ [][NextExtract]_vars

-----------------------------------------------------------------------------
(* Properties of the entity extractor *)

\* C17: for every article text, extract_defined_terms returns at most one
\* DefinedTerm per normalized case-insensitive term (no two returned terms
\* have the same term_lower), however many times the pattern matches that
\* term in the article, and the one kept is the first match in text order.
C17_OneDefinedTermPerTermLower ==
    ext_call.op = "extract_defined_terms"
        => /\ \A i, j \in DOMAIN ext_terms :
                 i # j => term_lower(ext_terms[i]) # term_lower(ext_terms[j])
           /\ \A i \in DOMAIN ext_terms :
                 LET ms == finditer("def", ext_article.text)
                     same == {k \in DOMAIN ms :
                                 Strip(Lower(normalize_term(ms[k].group1)))
                                    = term_lower(ext_terms[i])}
                     first == CHOOSE k \in same : \A l \in same : k <= l
                 IN /\ same # {}
                    /\ ext_terms[i].term = normalize_term(ms[first].group1)
                    /\ ext_terms[i].definition_snippet
                          = SnippetOf(TextOf(ext_article.text), ms[first])

\* C18: the EntityIndex returned by extract_entities holds at most one
\* DefinedTerm per (celex_id, term_lower), for every corpus, including
\* documents in which several articles titled with "definition" or "scope"
\* define the same term.
C18_OneDefinedTermPerDocumentAndTerm ==
    ext_call.op = "extract_entities"
        => \A i, j \in DOMAIN ext_terms :
              i # j => <<ext_terms[i].celex_id, term_lower(ext_terms[i])>>
                          # <<ext_terms[j].celex_id, term_lower(ext_terms[j])>>

\* C19: the EntityIndex returned by extract_entities holds at most one
\* CrossReference per (source_celex, source_article,
\* target_regulation_number): repeated mentions of the same number/year pair
\* collapse to the first one, for every document, those whose article
\* numbers recur included.
C19_OneCrossReferencePerArticleAndTarget ==
    ext_call.op = "extract_entities"
        => \A i, j \in DOMAIN ext_refs :
              i # j => <<ext_refs[i].source_celex, ext_refs[i].source_article,
                         ext_refs[i].target_regulation_number>>
                          # <<ext_refs[j].source_celex, ext_refs[j].source_article,
                              ext_refs[j].target_regulation_number>>

-----------------------------------------------------------------------------
(* src/ingestion/html_parser.py

   A parsed document (the BeautifulSoup tree) is represented by the sequence
   of its elements in document order, each with its tag name, the tokens of
   its class attribute and its id attribute. *)

MaxElements == 2

Element(name, classes, id) == [name |-> name, classes |-> classes, id |-> id]

\* soup.find(class_=c): an element one of whose class tokens is c; a Tag
\* that is found is true.
FindClass(doc, c) == \E i \in DOMAIN doc : c \in Range(doc[i].classes)

\* soup.find(name, id=v)
FindNameId(doc, name, v) == \E i \in DOMAIN doc : doc[i].name = name /\ doc[i].id = v

\* Mutant: the markers are tested in the opposite order.
detect_format_reversed(doc) ==
    IF FindNameId(doc, "div", "TexteOnly") THEN [fmt |-> "html_legacy", error |-> "none"]
    ELSE IF FindClass(doc, "ti-art") THEN [fmt |-> "xhtml_mid", error |-> "none"]
    ELSE IF FindClass(doc, "eli-container") THEN [fmt |-> "xhtml", error |-> "none"]
    ELSE [fmt |-> "", error |-> "ValueError"]

\* detect_format: the format returned, or the exception raised
detect_format(doc) ==
    IF FindClass(doc, "eli-container") THEN [fmt |-> "xhtml", error |-> "none"]
    ELSE IF FindClass(doc, "ti-art") THEN [fmt |-> "xhtml_mid", error |-> "none"]
    ELSE IF FindNameId(doc, "div", "TexteOnly") THEN [fmt |-> "html_legacy", error |-> "none"]
    ELSE [fmt |-> "", error |-> "ValueError"]

\* _parse_xhtml, _parse_xhtml_mid, _parse_html_legacy: of the
\* ParsedRegulation they return, the document ID and the format_type.
parse_xhtml(doc, celex_id) == [celex_id |-> celex_id, format_type |-> "xhtml"]

parse_xhtml_mid(doc, celex_id) == [celex_id |-> celex_id, format_type |-> "xhtml_mid"]

parse_html_legacy(doc, celex_id) == [celex_id |-> celex_id, format_type |-> "html_legacy"]

\* parse_regulation: None and the exception of detect_format, or the
\* ParsedRegulation of the parser of the detected format
parse_regulation(doc, celex_id) ==
    LET det == detect_format(doc)
    IN IF det.error # "none" THEN [parsed |-> None, error |-> det.error]
       ELSE IF det.fmt = "xhtml"
       THEN [parsed |-> Some(parse_xhtml(doc, celex_id)), error |-> "none"]
       ELSE IF det.fmt = "xhtml_mid"
       THEN [parsed |-> Some(parse_xhtml_mid(doc, celex_id)), error |-> "none"]
       ELSE [parsed |-> Some(parse_html_legacy(doc, celex_id)), error |-> "none"]

\* The elements of the documents: the three markers, a prefixed article
\* heading, a marker among several class tokens, the TexteOnly id on an
\* element that is not a div, and a plain paragraph.
Elements ==
    {Element("div", <<"eli-container">>, ""),
     Element("p", <<"ti-art">>, ""),
     Element("p", <<"oj-ti-art">>, ""),
     Element("p", <<"doc-ti", "ti-art">>, ""),
     Element("div", <<>>, "TexteOnly"),
     Element("p", <<>>, "TexteOnly"),
     Element("p", <<"normal">>, "")}

Soups == SeqsUpTo(Elements, MaxElements)

-----------------------------------------------------------------------------
(* Specification of the html parser: Init is a parsed document, the actions
   are detect_format and parse_regulation. *)

InitParse ==
    /\ ChunkIdle
    /\ RouteIdle
    /\ StoreIdle
    /\ ExtractIdle
    /\ CallersIdle
    /\ DownloadIdle
    /\ soup \in Soups
    /\ fmt = ""
    /\ parse_call = [op |-> "none"]
    /\ parsed = None
    /\ parse_error = "none"
    /\ html_dir = <<>>
    /\ parsed_corpus = <<>>

\* detect_format(soup)
DetectFormat ==
    /\ parse_call' = [op |-> "detect_format"]
    /\ fmt' = detect_format(soup).fmt
    /\ parse_error' = detect_format(soup).error
    /\ parsed' = None
    /\ UNCHANGED <<soup, html_dir, parsed_corpus, callers, dlVars, extractVars, chunkVars, routeVars, storeVars>>

\* parse_regulation(html_path, celex_id)
ParseRegulation ==
    /\ parse_call' = [op |-> "parse_regulation"]
    /\ fmt' = detect_format(soup).fmt
    /\ parsed' = parse_regulation(soup, "32002R0178").parsed
    /\ parse_error' = parse_regulation(soup, "32002R0178").error
    /\ UNCHANGED <<soup, html_dir, parsed_corpus, callers, dlVars, extractVars, chunkVars, routeVars, storeVars>>

NextParse == DetectFormat \/ ParseRegulation

SpecParse == InitParse /\ [][NextParse]_vars

-----------------------------------------------------------------------------
(* Properties of the html parser *)

\* The markers present in the document
HasEliContainer == \E i \in DOMAIN soup : \E j \in DOMAIN soup[i].classes :
                      soup[i].classes[j] = "eli-container"

HasTiArt == \E i \in DOMAIN soup : \E j \in DOMAIN soup[i].classes :
               soup[i].classes[j] = "ti-art"

HasTexteOnlyDiv == \E i \in DOMAIN soup : soup[i].name = "div" /\ soup[i].id = "TexteOnly"

\* The format of the first marker present, in the order eli-container,
\* ti-art, TexteOnly div; "" when none is present.
FirstMarkerFormat ==
    CASE HasEliContainer -> "xhtml"
      [] ~HasEliContainer /\ HasTiArt -> "xhtml_mid"
      [] ~HasEliContainer /\ ~HasTiArt /\ HasTexteOnlyDiv -> "html_legacy"
      [] OTHER -> ""

\* C20: detect_format tests the structural markers in the fixed order
\* eli-container, ti-art, TexteOnly div and returns the format of the first
\* one present (xhtml, xhtml_mid, html_legacy) even when later markers are
\* present too; when none is present it fails with the unrecognized-format
\* error and parse_regulation returns no ParsedRegulation.
C20_DetectFormatInMarkerOrder ==
    /\ parse_call.op = "detect_format"
          => IF FirstMarkerFormat = ""
             THEN parse_error = "ValueError" /\ fmt = ""
             ELSE parse_error = "none" /\ fmt = FirstMarkerFormat
    /\ parse_call.op = "parse_regulation"
          => IF FirstMarkerFormat = ""
             THEN parse_error = "ValueError" /\ parsed = None
             ELSE /\ parse_error = "none"
                  /\ parsed # None
                  /\ parsed[1].format_type = FirstMarkerFormat

\* detect_format has returned xhtml for a document that holds the
\* eli-container marker after a TexteOnly div.
C20_Witness ==
    /\ parse_call.op = "detect_format"
    /\ Len(soup) = 2
    /\ soup[1].name = "div" /\ soup[1].id = "TexteOnly"
    /\ "eli-container" \in Range(soup[2].classes)
    /\ fmt = "xhtml"
    /\ parse_error = "none"

-----------------------------------------------------------------------------
(* parse_corpus: the files of the directory are represented by the sequence,
   in the order of sorted(html_dir.glob("*.html")), of their document IDs
   (the file stems) and parsed contents. *)

MaxFiles == 3

HtmlFile(celex_id, doc) == [celex_id |-> celex_id, soup |-> doc]

\* The loop of parse_corpus from file i on: the first exception of
\* parse_regulation leaves the loop and the function.
RECURSIVE ParseLoop(_, _, _)
ParseLoop(dir, i, results) ==
    IF i > Len(dir) THEN [results |-> results, error |-> "none"]
    ELSE LET r == parse_regulation(dir[i].soup, dir[i].celex_id)
         IN IF r.error # "none" THEN [results |-> <<>>, error |-> r.error]
            ELSE ParseLoop(dir, i + 1, Append(results, r.parsed[1]))

\* parse_corpus: the list returned, or the exception raised
parse_corpus(dir) == ParseLoop(dir, 1, <<>>)

\* The contents of the files: one document of each format and one without
\* any marker.
FileSoups ==
    {<<Element("div", <<"eli-container">>, "")>>,
     <<Element("p", <<"ti-art">>, "")>>,
     <<Element("div", <<>>, "TexteOnly")>>,
     <<Element("p", <<"normal">>, "")>>}

FileNames == <<"31999R0001", "32002R0178", "32008R1333", "32015R2283">>

\* Directories of up to MaxFiles files
HtmlDirs ==
    {[i \in DOMAIN c |-> HtmlFile(FileNames[i], c[i])] :
        c \in UNION {[1..k -> FileSoups] : k \in 0..(IF MaxFiles < 4 THEN MaxFiles ELSE 4)}}

(* Specification of parse_corpus: Init is a directory, the action is the
   call. *)
InitParseCorpus ==
    /\ ChunkIdle
    /\ RouteIdle
    /\ StoreIdle
    /\ ExtractIdle
    /\ CallersIdle
    /\ DownloadIdle
    /\ soup = <<>>
    /\ fmt = ""
    /\ parse_call = [op |-> "none"]
    /\ parsed = None
    /\ parse_error = "none"
    /\ html_dir \in HtmlDirs
    /\ parsed_corpus = <<>>

\* parse_corpus(html_dir)
ParseCorpus ==
    /\ parse_call' = [op |-> "parse_corpus"]
    /\ parsed_corpus' = parse_corpus(html_dir).results
    /\ parse_error' = parse_corpus(html_dir).error
    /\ UNCHANGED <<soup, fmt, parsed, html_dir, callers, dlVars, extractVars, chunkVars, routeVars, storeVars>>

NextParseCorpus == ParseCorpus

SpecParseCorpus == InitParseCorpus /\ [][NextParseCorpus]_vars

\* The files whose format is recognized
Recognized == {i \in DOMAIN html_dir : detect_format(html_dir[i].soup).error = "none"}

\* C21: when parse_corpus processes a batch in which one document has an
\* unrecognized format, the failure is confined to that document: every
\* other document of the batch, before and after it, is still parsed and
\* returned.
C21_FailureConfinedToDocument ==
    parse_call.op = "parse_corpus"
        => \A i \in Recognized :
              \E j \in DOMAIN parsed_corpus :
                 /\ parsed_corpus[j].celex_id = html_dir[i].celex_id
                 /\ parsed_corpus[j].format_type = detect_format(html_dir[i].soup).fmt

-----------------------------------------------------------------------------
(* Concurrent query callers on one routing table and one vector store
   (src/retrieval/routing.py, src/indexing/vector_store.py).  Each caller
   runs one call at a time; a call proceeds in steps, and each step reads the
   attributes of the table or the store that the code reads at that point.
   The locals of a call (result, mask, scores) belong to the caller. *)

MaxCallers == 2

NoArgs ==
    [query |-> "", celex_ids |-> None, n_results |-> 0,
     route |-> [product_type |-> "", ingredients |-> <<>>, claims |-> <<>>,
                packaging |-> "", keywords |-> <<>>],
     category |-> ""]

\* A caller between calls
IdleCaller ==
    [pc |-> "idle", op |-> "none", args |-> NoArgs, pos |-> 0, acc |-> EmptyResult,
     mask |-> <<>>, scores |-> <<>>, output |-> <<>>, error |-> "none"]

CanCall(c) == callers[c].pc \in {"idle", "done"}

OnlyCaller(c, r) == callers' = [callers EXCEPT ![c] = r]

\* Neither route, route_by_category nor search assigns to an attribute of
\* the table or the store, or writes a file.
SharedUnchanged ==
    UNCHANGED <<entity_index, table, hash_seed, call, result, added,
                storeVars, chunkVars, extractVars, parseVars, dlVars>>

\* search, lines 96-97: the test of the index
SearchStart(c, q, f, n) ==
    /\ CanCall(c)
    /\ LET a == [NoArgs EXCEPT !.query = q, !.celex_ids = f, !.n_results = n]
           r == [IdleCaller EXCEPT !.op = "search", !.args = a]
       IN IF embeddings = None \/ Len(ids) = 0
          THEN OnlyCaller(c, [r EXCEPT !.pc = "done"])
          ELSE OnlyCaller(c, [r EXCEPT !.pc = "mask"])
    /\ SharedUnchanged

\* A variant of the mask step that filters the stored ids in place
SearchMask_inPlace(c) ==
    /\ callers[c].pc = "mask"
    /\ LET m == Mask(Index, callers[c].args.celex_ids)
       IN /\ OnlyCaller(c, [callers[c] EXCEPT !.pc = "scores", !.mask = m])
          /\ ids' = IF \A i \in DOMAIN m : m[i] THEN ids ELSE SubSeq(ids, 1, MaskSum(m))
    /\ UNCHANGED <<entity_index, table, hash_seed, call, result, added,
                   texts, metadatas, embeddings, disk, store_call, indexed, output, error,
                   chunkVars, extractVars, parseVars, dlVars>>

\* search, lines 105-115: the mask
SearchMask(c) ==
    /\ callers[c].pc = "mask"
    /\ LET m == Mask(Index, callers[c].args.celex_ids)
       IN IF Truthy(callers[c].args.celex_ids) /\ MaskSum(m) = 0
          THEN OnlyCaller(c, [callers[c] EXCEPT !.pc = "done"])
          ELSE OnlyCaller(c, [callers[c] EXCEPT !.pc = "scores", !.mask = m])
    /\ SharedUnchanged

\* search, lines 118-121: the scores, a new array
SearchScores(c) ==
    /\ callers[c].pc = "scores"
    /\ IF Rows(Index) # Len(callers[c].mask)
       THEN OnlyCaller(c, [callers[c] EXCEPT !.pc = "done", !.error = "IndexError"])
       ELSE OnlyCaller(c, [callers[c] EXCEPT
                !.pc = "select",
                !.scores = Scores(Index, encode(Str(callers[c].args.query)), callers[c].mask)])
    /\ SharedUnchanged

\* search, lines 124-141: the selection and the output loop
SearchSelect(c) ==
    /\ callers[c].pc = "select"
    /\ LET sc == callers[c].scores
           N  == Len(sc)
           k  == Min(callers[c].args.n_results, MaskSum(callers[c].mask))
       IN IF k < 0 /\ -k >= N
          THEN OnlyCaller(c, [callers[c] EXCEPT !.pc = "done", !.error = "ValueError"])
          ELSE \E T \in TopSets(sc, TopSize(N, k)) : \E p \in Orderings(sc, T) :
                  OnlyCaller(c, [callers[c] EXCEPT !.pc = "done",
                                                  !.output = Output(Index, sc, p).output,
                                                  !.error = Output(Index, sc, p).error])
    /\ SharedUnchanged

\* route, line 134: the new RoutingResult
RouteStart(c, args) ==
    /\ CanCall(c)
    /\ OnlyCaller(c, [IdleCaller EXCEPT !.pc = "route", !.op = "route",
                                      !.args = [NoArgs EXCEPT !.route = args]])
    /\ SharedUnchanged

\* route_by_category, line 186
RouteByCategoryStart(c, category) ==
    /\ CanCall(c)
    /\ OnlyCaller(c, [IdleCaller EXCEPT !.pc = "route", !.op = "route_by_category",
                                      !.args = [NoArgs EXCEPT !.category = category]])
    /\ SharedUnchanged

\* The add calls of the call in progress of caller c, as the table stands
AddsOf(c) ==
    IF callers[c].op = "route"
    THEN RouteAdds(callers[c].args.route, table, hash_seed)
    ELSE RouteByCategoryAdds(callers[c].args.category, hash_seed)

\* One add of the loops of route or route_by_category, or the return
RouteStep(c) ==
    /\ callers[c].pc = "route"
    /\ LET adds == AddsOf(c)
           pos  == callers[c].pos
       IN IF pos < Len(adds)
          THEN OnlyCaller(c, [callers[c] EXCEPT
                   !.pos = pos + 1,
                   !.acc = add(callers[c].acc, adds[pos + 1][1], adds[pos + 1][2])])
          ELSE OnlyCaller(c, [callers[c] EXCEPT !.pc = "done"])
    /\ SharedUnchanged

\* The index and the table the callers share, and the calls they make
ConcurrentChunks ==
    <<chunk_article(StoreArticles[1], MAX_CHUNK_CHARS)[1],
      chunk_article(StoreArticles[3], MAX_CHUNK_CHARS)[1]>>

ConcurrentEntityIndex ==
    [defined_terms |-> <<DefinedTerm("novel food", "32015R2283"),
                         DefinedTerm("food additive", "32008R1333")>>]

ConcurrentFilters == {None, Some(<<"32002R0178">>)}

ConcurrentNResults == {1, 10}

ConcurrentRouteArgs ==
    {[product_type |-> " Novel Food", ingredients |-> <<>>, claims |-> <<>>,
      packaging |-> "", keywords |-> <<>>],
     [product_type |-> "", ingredients |-> <<"food additive">>, claims |-> <<>>,
      packaging |-> "", keywords |-> <<>>]}

InitConcurrent ==
    /\ ChunkIdle
    /\ DownloadIdle
    /\ ExtractIdle
    /\ ParseIdle
    /\ entity_index = ConcurrentEntityIndex
    /\ table = RoutingTable(entity_index)
    /\ hash_seed \in 1..MaxSeed
    /\ call = [op |-> "none"]
    /\ result = EmptyResult
    /\ added = <<>>
    /\ ids = index_chunks(EmptyIndex, ConcurrentChunks).ids
    /\ texts = index_chunks(EmptyIndex, ConcurrentChunks).texts
    /\ metadatas = index_chunks(EmptyIndex, ConcurrentChunks).metadatas
    /\ embeddings = index_chunks(EmptyIndex, ConcurrentChunks).embeddings
    /\ disk = save(index_chunks(EmptyIndex, ConcurrentChunks), EmptyDisk)
    /\ store_call = [op |-> "none"]
    /\ indexed = 0
    /\ output = <<>>
    /\ error = "none"
    /\ callers = [c \in 1..MaxCallers |-> IdleCaller]

NextConcurrent ==
    \E c \in DOMAIN callers :
        \/ \E f \in ConcurrentFilters, n \in ConcurrentNResults :
              SearchStart(c, "novel food", f, n)
        \/ SearchMask(c)
        \/ SearchScores(c)
        \/ SearchSelect(c)
        \/ \E args \in ConcurrentRouteArgs : RouteStart(c, args)
        \/ RouteByCategoryStart(c, "gmo")
        \/ RouteStep(c)

SpecConcurrent == InitConcurrent /\ [][NextConcurrent]_vars

\* The table, the index and the snapshot
SharedState == <<entity_index, table, hash_seed, ids, texts, metadatas, embeddings, disk>>

\* The result of the finished call of caller c is a result of the same call
\* run alone.
ReturnsAsAlone(c) ==
    CASE callers[c].op = "search" ->
            [output |-> callers[c].output, error |-> callers[c].error]
               \in search(Index, callers[c].args.query, callers[c].args.celex_ids,
                          callers[c].args.n_results)
      [] callers[c].op = "route" ->
            callers[c].acc = route(callers[c].args.route, table, hash_seed)
      [] callers[c].op = "route_by_category" ->
            callers[c].acc = route_by_category(callers[c].args.category, hash_seed)
      [] OTHER -> TRUE

\* C22: route, route_by_category and search are read-only on the routing
\* table and the index (the term and category maps, ids, texts, metadata,
\* embeddings and the persisted snapshot are left unchanged), so under any
\* interleaving of concurrent query callers with no rebuild in progress each
\* call returns the result it returns when run alone.
C22_ConcurrentReadsReturnAsAlone ==
    /\ [][SharedState' = SharedState]_vars
    /\ [](\A c \in DOMAIN callers : callers[c].pc = "done" => ReturnsAsAlone(c))

\* Two callers have finished calls that were in progress at the same time:
\* a search that returned a result and a route that added a document for a
\* defined term.
C22_Witness ==
    /\ Len(callers) >= 2
    /\ callers[1].pc = "done" /\ callers[1].op = "search" /\ Len(callers[1].output) = 1
    /\ callers[2].pc = "done" /\ callers[2].op = "route"
    /\ "32015R2283" \in Range(callers[2].acc.celex_ids)

-----------------------------------------------------------------------------
(* Order of iteration of the sets read by route (SpecRoute) *)

\* C23: routing is deterministic: two route calls with equal arguments on
\* routing tables built from the same catalog and entity index return the
\* same celex_ids list in the same order and the same reason lists, whatever
\* order the always-included set, the category sets and the term sets are
\* iterated in.
C23_RouteIndependentOfIterationOrder ==
    call.op = "route"
        => \A seed \in 1..MaxSeed : route(call.args, table, seed) = result

-----------------------------------------------------------------------------
(* Identifiers in documents without recurring article numbers (SpecCorpus) *)

NoNumberRecurs(reg) == \A k \in DOMAIN reg.articles : ~NumberRecurs(reg, k)

\* Document ID plus article number, plus the chunk index for a chunk of a
\* split article
PlainId(c) ==
    IF c.total_chunks = 1
    THEN c.celex_id \o "_art" \o ToString(c.article_number)
    ELSE c.celex_id \o "_art" \o ToString(c.article_number)
            \o "_chunk" \o ToString(c.chunk_index)

\* C24: for every document in which no article number recurs,
\* chunk_regulation adds no occurrence suffix: each chunk_id is exactly
\* document ID plus article number for a whole-article chunk, and that plus
\* the chunk index for a chunk of a split article.
C24_NoSuffixWithoutRecurrence ==
    (reg_arg # 0 /\ NoNumberRecurs(regulations[reg_arg]))
        => \A i \in DOMAIN reg_chunks :
              /\ reg_chunks[i].occurrence = 0
              /\ chunk_id(reg_chunks[i]) = PlainId(reg_chunks[i])

\* chunk_regulation has run on a document of two articles with different
\* numbers, one of them split.
C24_Witness ==
    /\ reg_arg # 0
    /\ NoNumberRecurs(regulations[reg_arg])
    /\ Len(regulations[reg_arg].articles) >= 2
    /\ \E i \in DOMAIN reg_chunks : reg_chunks[i].total_chunks > 1
    /\ \E i \in DOMAIN reg_chunks : reg_chunks[i].total_chunks = 1

-----------------------------------------------------------------------------
(* src/ingestion/eurlex_downloader.py: download_regulation.  The output
   directory is a function from document ID to None (no file) or Some(the
   bytes of the file).  What the network answers to a request is an input of
   the call. *)

MaxCalls == 3

CELLAR_BASE == "http://publications.europa.eu/resource/celex/"

\* What urlopen and resp.read() do: a response, or an exception
Response(content, content_type) ==
    [kind |-> "ok", content |-> content, content_type |-> content_type,
     code |-> 200, reason |-> "OK"]

HTTPError(code, reason) ==
    [kind |-> "HTTPError", content |-> "", content_type |-> "", code |-> code, reason |-> reason]

URLError(reason) ==
    [kind |-> "URLError", content |-> "", content_type |-> "", code |-> 0, reason |-> reason]

\* An exception of urlopen or read that is neither: a timeout while reading
ReadTimeout ==
    [kind |-> "TimeoutError", content |-> "", content_type |-> "", code |-> 0,
     reason |-> "timed out"]

\* output_dir / f"{celex_id}.html"
output_path(celex_id) == celex_id \o ".html"

\* A variant of download_regulation without the test of output_path.exists()
download_regulation_noExistsTest(celex_id, files, net) ==
    IF net.kind = "ok"
    THEN [files |-> [files EXCEPT ![celex_id] = Some(net.content)],
          url |-> Some(CELLAR_BASE \o celex_id),
          result |-> Returned([celex |-> celex_id, size |-> Len(net.content),
                               path |-> output_path(celex_id), skipped |-> FALSE])]
    ELSE [files |-> files, url |-> Some(CELLAR_BASE \o celex_id),
          result |-> Raised(net.kind)]

\* download_regulation(celex_id, output_dir): the directory after the call,
\* the URL requested (None when no request is made) and the outcome
download_regulation(celex_id, files, net) ==
    IF files[celex_id] # None
    THEN [files |-> files, url |-> None,
          result |-> Returned([celex |-> celex_id, size |-> Len(files[celex_id][1]),
                               path |-> output_path(celex_id), skipped |-> TRUE])]
    ELSE LET url == CELLAR_BASE \o celex_id
         IN CASE net.kind = "HTTPError" ->
                    [files |-> files, url |-> Some(url),
                     result |-> Returned([celex |-> celex_id,
                                          error |-> "HTTP " \o ToString(net.code) \o ": " \o net.reason])]
              [] net.kind = "URLError" ->
                    [files |-> files, url |-> Some(url),
                     result |-> Returned([celex |-> celex_id, error |-> net.reason])]
              [] net.kind = "ok" ->
                    [files |-> [files EXCEPT ![celex_id] = Some(net.content)],
                     url |-> Some(url),
                     result |-> Returned([celex |-> celex_id, size |-> Len(net.content),
                                          format |-> IF Contains(net.content_type, "xhtml")
                                                     THEN "xhtml" ELSE "html",
                                          path |-> output_path(celex_id), skipped |-> FALSE])]
              [] OTHER ->
                    [files |-> files, url |-> Some(url), result |-> Raised(net.kind)]

DownloadIds == {"32015R2283", "INVALID_CELEX"}

Contents == {"<html>already here</html>", "<html>new</html>", ""}

NetOutcomes ==
    {Response(c, t) : c \in Contents \ {"<html>already here</html>"},
                      t \in {"text/html", "application/xhtml+xml;charset=UTF-8"}}
      \cup {HTTPError(404, "Not Found"), URLError("Name or service not known"), ReadTimeout}

InitDownload ==
    /\ ChunkIdle
    /\ RouteIdle
    /\ StoreIdle
    /\ ExtractIdle
    /\ ParseIdle
    /\ CallersIdle
    /\ cache \in [DownloadIds -> {None, Some("<html>already here</html>")}]
    /\ dl_call = [op |-> "none"]
    /\ dl_log = <<>>

\* result = download_regulation(celex_id, output_dir), the network answering net
DownloadRegulation(celex_id, net) ==
    /\ Len(dl_log) < MaxCalls
    /\ LET r == download_regulation(celex_id, cache, net)
       IN /\ cache' = r.files
          /\ dl_call' = [op |-> "download_regulation", celex_id |-> celex_id,
                         url |-> r.url, result |-> r.result]
          /\ dl_log' = Append(dl_log, [celex_id |-> celex_id, net |-> net, url |-> r.url,
                                       before |-> cache[celex_id], after |-> r.files[celex_id],
                                       result |-> r.result])
    /\ UNCHANGED <<chunkVars, routeVars, storeVars, extractVars, parseVars, callers>>

NextDownload == \E celex_id \in DownloadIds, net \in NetOutcomes : DownloadRegulation(celex_id, net)

SpecDownload == InitDownload /\ [][NextDownload]_vars

\* The call of log entry e fetched the document
Fetched(e) == e.url # None /\ e.net.kind = "ok"

\* C25, per call: when the file of the ID exists the call makes no request,
\* leaves the file unchanged and reports skipped; a fetch that fails with an
\* HTTP or URL error returns an error record, raises nothing and writes no
\* file.
CallsAsClaimed ==
    \A i \in DOMAIN dl_log :
        LET e == dl_log[i] IN
        /\ e.before # None
              => /\ e.url = None
                 /\ e.after = e.before
                 /\ e.result.error = "none"
                 /\ e.result.output.skipped = TRUE
        /\ (e.before = None /\ e.net.kind \in {"HTTPError", "URLError"})
              => /\ e.result.error = "none"
                 /\ "error" \in DOMAIN e.result.output
                 /\ e.after = None

\* C25, per ID: the file is written by at most one call, the first call for
\* the ID whose fetch succeeds.
WrittenOnce ==
    \A i \in DOMAIN dl_log :
        dl_log[i].after # dl_log[i].before
            => /\ Fetched(dl_log[i])
               /\ \A j \in DOMAIN dl_log :
                     (j # i /\ dl_log[j].celex_id = dl_log[i].celex_id)
                        => /\ dl_log[j].after = dl_log[j].before
                           /\ Fetched(dl_log[j]) => j > i

\* C25: download_regulation is an idempotent fetch-and-cache keyed by
\* document ID: when the file of an ID already exists it performs no network
\* request, leaves the file unchanged and reports skipped; a failed fetch
\* (HTTP or URL error) returns an error record without raising and writes no
\* file; so over any sequence of calls the cached file of an ID is written at
\* most once, by the first successful fetch, and never changed afterwards.
C25_FetchAndCacheIsIdempotent ==
    /\ [](CallsAsClaimed /\ WrittenOnce)
    /\ [][\A id \in DOMAIN cache : cache[id] # None => cache'[id] = cache[id]]_vars

\* A failed fetch, then a successful one that wrote the file, then a call
\* that was skipped, all for one ID.
C25_Witness ==
    /\ Len(dl_log) = 3
    /\ \A i \in 1..3 : dl_log[i].celex_id = "32015R2283"
    /\ dl_log[1].net.kind = "HTTPError" /\ dl_log[1].before = None
    /\ Fetched(dl_log[2]) /\ dl_log[2].after = Some("<html>new</html>")
    /\ dl_log[3].url = None /\ dl_log[3].result.output.skipped = TRUE
    /\ cache["32015R2283"] = Some("<html>new</html>")

-----------------------------------------------------------------------------
(* src/ingestion/html_parser.py: _parse_xhtml_mid.  The document is the
   sequence of the children of <body>, each with its text. *)

MaxNodes == 4

\* A child of <body>: tag name, class tokens and text
TextElement(name, classes, text) ==
    [name |-> name, classes |-> classes, id |-> "", text |-> text]

\* element.get_text(strip=True) of an element holding one string
get_text(e) == Strip(e.text)

Digits == "0123456789"

DigitValue(c) == (CHOOSE i \in 1..Len(Digits) : CharAt(Digits, i) = c) - 1

\* int(s) of a string of digits
RECURSIVE IntOf(_)
IntOf(s) ==
    IF Len(s) = 0 THEN 0
    ELSE 10 * IntOf(SubSeq(s, 1, Len(s) - 1)) + DigitValue(CharAt(s, Len(s)))

\* The length of the longest run of characters of the set chars in s from
\* position i on
RunLength(s, i, chars) ==
    LET stop == {j \in i..Len(s) : CharAt(s, j) \notin chars}
    IN IF stop = {} THEN (IF i > Len(s) THEN 0 ELSE Len(s) - i + 1)
       ELSE (CHOOSE j \in stop : \A k \in stop : j <= k) - i

SpaceChars == {" ", "\t", "\n", "\r"}

DigitChars == {CharAt(Digits, i) : i \in 1..Len(Digits)}

\* re.match(r"Article\s+(\d+)", text): None, or Some(int(group 1))
ArticleMatch(text) ==
    IF Len(text) < 7 \/ SubSeq(text, 1, 7) # "Article" THEN None
    ELSE LET spaces == RunLength(text, 8, SpaceChars)
             digits == RunLength(text, 8 + spaces, DigitChars)
         IN IF spaces = 0 \/ digits = 0 THEN None
            ELSE Some(IntOf(SubSeq(text, 8 + spaces, 7 + spaces + digits)))

\* "\n".join(parts)
RECURSIVE JoinLines(_)
JoinLines(parts) ==
    IF Len(parts) = 0 THEN ""
    ELSE IF Len(parts) = 1 THEN parts[1]
    ELSE parts[1] \o "\n" \o JoinLines(Tail(parts))

\* The locals of the loop over the headings and of the walk over the siblings
MidState(chapter, section, title, body) ==
    [current_chapter |-> chapter, current_section |-> section,
     art_title |-> title, body_parts |-> body]

\* The while loop over heading.next_sibling, from child i on
RECURSIVE SiblingWalk(_, _, _)
SiblingWalk(doc, i, st) ==
    IF i > Len(doc) THEN st
    ELSE LET e   == doc[i]
             cls == Range(e.classes)
         IN IF "ti-art" \in cls THEN st
            ELSE IF "ti-section-1" \in cls
            THEN SiblingWalk(doc, i + 1, [st EXCEPT !.current_chapter = get_text(e)])
            ELSE IF "ti-section-2" \in cls
            THEN SiblingWalk(doc, i + 1, [st EXCEPT !.current_section = get_text(e)])
            ELSE IF "sti-art" \in cls
            THEN SiblingWalk(doc, i + 1, [st EXCEPT !.art_title = get_text(e)])
            ELSE IF "normal" \in cls \/ e.name = "table"
            THEN SiblingWalk(doc, i + 1,
                     IF get_text(e) # ""
                     THEN [st EXCEPT !.body_parts = Append(@, get_text(e))]
                     ELSE st)
            ELSE IF "doc-sep" \in cls THEN st
            ELSE SiblingWalk(doc, i + 1, st)

\* soup.find_all("p", class_="ti-art"): the positions, in document order
ArtHeadings(doc) ==
    SortedSeq({i \in DOMAIN doc : doc[i].name = "p" /\ "ti-art" \in Range(doc[i].classes)})

\* The for loop over art_headings, from heading k on
RECURSIVE HeadingLoop(_, _, _, _, _, _)
HeadingLoop(doc, celex_id, heads, k, ctx, articles) ==
    IF k > Len(heads) THEN articles
    ELSE LET h == heads[k]
             m == ArticleMatch(get_text(doc[h]))
         IN IF m = None
            THEN HeadingLoop(doc, celex_id, heads, k + 1, ctx, articles)
            ELSE LET st == SiblingWalk(doc, h + 1,
                               MidState(ctx.current_chapter, ctx.current_section, "", <<>>))
                 IN HeadingLoop(doc, celex_id, heads, k + 1, st,
                        Append(articles,
                               [celex_id |-> celex_id, article_number |-> m[1],
                                title |-> st.art_title, text |-> JoinLines(st.body_parts),
                                chapter |-> st.current_chapter,
                                section |-> st.current_section]))

\* The articles of _parse_xhtml_mid(soup, celex_id)
mid_articles(doc, celex_id) ==
    HeadingLoop(doc, celex_id, ArtHeadings(doc), 1, MidState("", "", "", <<>>), <<>>)

\* The children of <body> of the documents: chapter and section headers,
\* article headings (one with surrounding whitespace), a heading that is
\* no article, and a body paragraph
MidNodes ==
    {TextElement("p", <<"ti-section-1">>, "CHAPTER I"),
     TextElement("p", <<"ti-section-1">>, "CHAPTER II"),
     TextElement("p", <<"ti-section-2">>, "SECTION 1"),
     TextElement("p", <<"ti-art">>, "Article 1"),
     TextElement("p", <<"ti-art">>, " Article  12 "),
     TextElement("p", <<"ti-art">>, "ANNEX"),
     TextElement("p", <<"normal">>, " text ")}

MidSoups == SeqsUpTo(MidNodes, MaxNodes)

InitMid ==
    /\ ChunkIdle
    /\ RouteIdle
    /\ StoreIdle
    /\ ExtractIdle
    /\ CallersIdle
    /\ DownloadIdle
    /\ soup \in MidSoups
    /\ fmt = ""
    /\ parse_call = [op |-> "none"]
    /\ parsed = None
    /\ parse_error = "none"
    /\ html_dir = <<>>
    /\ parsed_corpus = <<>>

\* _parse_xhtml_mid(soup, celex_id)
ParseXhtmlMid ==
    /\ parse_call' = [op |-> "_parse_xhtml_mid"]
    /\ parsed' = Some([celex_id |-> "32002R0178", format_type |-> "xhtml_mid",
                       articles |-> mid_articles(soup, "32002R0178")])
    /\ UNCHANGED <<soup, fmt, parse_error, html_dir, parsed_corpus, callers, dlVars,
                   extractVars, chunkVars, routeVars, storeVars>>

NextMid == ParseXhtmlMid

SpecMid == InitMid /\ [][NextMid]_vars

\* The positions of the headings that open an article, in document order
ArticleHeadings(doc) ==
    SelectSeq(ArtHeadings(doc), LAMBDA h : ArticleMatch(get_text(doc[h])) # None)

\* The text of the last header of class c before child h, "" when there is none
LastHeaderBefore(doc, h, c) ==
    LET hs == {i \in 1..(h - 1) : c \in Range(doc[i].classes)}
    IN IF hs = {} THEN ""
       ELSE get_text(doc[CHOOSE i \in hs : \A j \in hs : j <= i])

\* C26: in the mid (unprefixed-class) format, each Article's chapter and
\* section are those of the most recent chapter and section header that
\* precede the article's heading in document order (empty when none precedes
\* it); the context carries forward across articles until overridden, and a
\* header that comes after an article's body applies only to the articles
\* that follow it.
C26_ContextIsLastHeaderBeforeHeading ==
    parse_call.op = "_parse_xhtml_mid"
        => LET heads == ArticleHeadings(soup)
               arts  == parsed[1].articles
           IN /\ Len(arts) = Len(heads)
              /\ \A k \in DOMAIN arts :
                    /\ arts[k].chapter = LastHeaderBefore(soup, heads[k], "ti-section-1")
                    /\ arts[k].section = LastHeaderBefore(soup, heads[k], "ti-section-2")

-----------------------------------------------------------------------------
(* Order of equal scores in the results of search (SpecStore) *)

\* The position in the index of the chunk of a result, for an index
\* without repeated chunk IDs
PositionOf(entry) == CHOOSE i \in DOMAIN ids : ids[i] = entry.chunk_id

\* C27: when several eligible chunks have equal scores, search returns them
\* in original index order (the chunk indexed earlier comes first), for every
\* index, filter and n_results.
C27_TiesInIndexOrder ==
    (IsSearch /\ error = "none" /\ NoDuplicates(ids))
        => \A a, b \in DOMAIN output :
              (a < b /\ output[a].score = output[b].score)
                 => PositionOf(output[a]) < PositionOf(output[b])

-----------------------------------------------------------------------------
(* Size of the chunks of a split article (SpecArticle) *)

\* C28: whenever chunk_article returns more than one chunk, every chunk, the
\* last one included, holds at least MIN_CHUNK_CHARS characters: a chunk is
\* closed only once its accumulation has reached the minimum, and a trailing
\* remainder below the minimum is appended to the previous chunk instead of
\* being emitted as a chunk of its own.
C28_EveryChunkOfSeveralReachesMinimum ==
    (article_done /\ Len(chunks) > 1)
        => \A i \in DOMAIN chunks : TextLen(chunks[i].text) >= MIN_CHUNK_CHARS

\* chunk_article has returned two chunks or more, the last of which ends
\* with a paragraph below the minimum that was merged into it.
C28_Witness ==
    /\ article_done
    /\ Len(chunks) > 1
    /\ LET last == chunks[Len(chunks)].text
       IN /\ Len(last) > 1
          /\ last[Len(last)].len < MIN_CHUNK_CHARS
          /\ last[Len(last)].len > 0

-----------------------------------------------------------------------------
(* src/ingestion/html_parser.py: _parse_html_legacy.  The document is the
   sequence of the <p> elements of the container (txt_te, or the TexteOnly
   div), in document order, each with its text. *)

MaxParagraphs == 3

\* s.startswith(prefix)
StartsWith(s, prefix) == Len(s) >= Len(prefix) /\ SubSeq(s, 1, Len(prefix)) = prefix

\* The characters that \w matches
WordChars ==
    {CharAt(UpperLetters, i) : i \in 1..Len(UpperLetters)}
      \cup {CharAt(LowerLetters, i) : i \in 1..Len(LowerLetters)}
      \cup DigitChars \cup {"_"}

\* article_pattern.match(text), article_pattern = ^Article\s+(\d+)$ : None,
\* or Some(int(group 1))
article_pattern(text) ==
    IF ~StartsWith(text, "Article") THEN None
    ELSE LET spaces == RunLength(text, 8, SpaceChars)
             digits == RunLength(text, 8 + spaces, DigitChars)
         IN IF spaces = 0 \/ digits = 0 \/ 7 + spaces + digits # Len(text) THEN None
            ELSE Some(IntOf(SubSeq(text, 8 + spaces, 7 + spaces + digits)))

\* re.match(r"^\d+\.", text)
NumberedMatch(text) ==
    LET digits == RunLength(text, 1, DigitChars)
    IN digits > 0 /\ Len(text) > digits /\ CharAt(text, digits + 1) = "."

\* re.match(r"^ANNEX\b", text)
AnnexMatch(text) ==
    StartsWith(text, "ANNEX") /\ (Len(text) = 5 \/ CharAt(text, 6) \notin WordChars)

\* Lines 226-230: the texts of the paragraphs that are not empty
Paragraphs(doc) ==
    LET ps == SelectSeq(doc, LAMBDA e : e.name = "p" /\ get_text(e) # "")
    IN [i \in DOMAIN ps |-> get_text(ps[i])]

\* Lines 246-259: the subtitle test on the paragraph after heading i
IsSubtitle(paragraphs, i) ==
    /\ i + 1 <= Len(paragraphs)
    /\ Len(paragraphs[i + 1]) < 200
    /\ ~NumberedMatch(paragraphs[i + 1])
    /\ ArticleMatch(paragraphs[i + 1]) = None
    /\ ~StartsWith(paragraphs[i + 1], "(")

\* Lines 264-271: the index at which the body loop started at j stops
RECURSIVE BodyEnd(_, _)
BodyEnd(paragraphs, j) ==
    IF j > Len(paragraphs) THEN j
    ELSE IF article_pattern(paragraphs[j]) # None THEN j
    ELSE IF AnnexMatch(paragraphs[j]) THEN j
    ELSE BodyEnd(paragraphs, j + 1)

\* Lines 240-282: the while loop over the paragraphs, from index i on
RECURSIVE LegacyLoop(_, _, _, _)
LegacyLoop(paragraphs, celex_id, i, articles) ==
    IF i > Len(paragraphs) THEN articles
    ELSE LET m == article_pattern(paragraphs[i])
         IN IF m = None THEN LegacyLoop(paragraphs, celex_id, i + 1, articles)
            ELSE LET titled     == IsSubtitle(paragraphs, i)
                     body_start == IF titled THEN i + 2 ELSE i + 1
                     j          == BodyEnd(paragraphs, body_start)
                 IN LegacyLoop(paragraphs, celex_id, j,
                        Append(articles,
                               [celex_id |-> celex_id, article_number |-> m[1],
                                title |-> IF titled THEN paragraphs[i + 1] ELSE "",
                                text |-> JoinLines(SubSeq(paragraphs, body_start, j - 1)),
                                chapter |-> "", section |-> ""]))

\* The articles of _parse_html_legacy(soup, celex_id)
legacy_articles(doc, celex_id) == LegacyLoop(Paragraphs(doc), celex_id, 1, <<>>)

\* A paragraph of 200 characters
LongParagraph ==
    LET s == "This Regulation lays down"
    IN s \o s \o s \o s \o s \o s \o s \o s

\* The texts of the paragraphs: article headings (one with surrounding
\* whitespace), a subtitle, a numbered sub-clause, a parenthesized item, an
\* annex heading, a paragraph that begins with the letters ANNEX, a long
\* paragraph, a sentence that begins like a heading, and a blank paragraph
LegacyTexts ==
    {"Article 1", " Article  2 ", "Subject matter", "1. This Regulation applies.",
     "(a) food", "ANNEX I", "ANNEXES", LongParagraph, "Article 3 shall apply.", "  "}

LegacyDocs == SeqsUpTo({TextElement("p", <<>>, t) : t \in LegacyTexts}, MaxParagraphs)

InitLegacy ==
    /\ ChunkIdle
    /\ RouteIdle
    /\ StoreIdle
    /\ ExtractIdle
    /\ CallersIdle
    /\ DownloadIdle
    /\ soup \in LegacyDocs
    /\ fmt = ""
    /\ parse_call = [op |-> "none"]
    /\ parsed = None
    /\ parse_error = "none"
    /\ html_dir = <<>>
    /\ parsed_corpus = <<>>

\* _parse_html_legacy(soup, celex_id)
ParseHtmlLegacy ==
    /\ parse_call' = [op |-> "_parse_html_legacy"]
    /\ parsed' = Some([celex_id |-> "32099R0002", format_type |-> "html_legacy",
                       articles |-> legacy_articles(soup, "32099R0002")])
    /\ UNCHANGED <<soup, fmt, parse_error, html_dir, parsed_corpus, callers, dlVars,
                   extractVars, chunkVars, routeVars, storeVars>>

NextLegacy == ParseHtmlLegacy

SpecLegacy == InitLegacy /\ [][NextLegacy]_vars

\* The paragraph is exactly "Article <N>"
IsArticleHeading(text) == article_pattern(text) # None

\* The paragraph looks like an article heading, a numbered sub-clause or a
\* parenthesized item
LooksLikeClause(text) ==
    ArticleMatch(text) # None \/ NumberedMatch(text) \/ StartsWith(text, "(")

\* The first paragraph from index j on that is an article heading or starts
\* with "ANNEX", or the index after the last paragraph
NextBoundary(ps, j) ==
    LET bs == {k \in j..Len(ps) : IsArticleHeading(ps[k]) \/ StartsWith(ps[k], "ANNEX")}
    IN IF bs = {} THEN Len(ps) + 1 ELSE CHOOSE k \in bs : \A l \in bs : k <= l

\* C29: in the legacy format the scan of the paragraph sequence terminates
\* and yields one Article per paragraph that is exactly "Article <N>", in
\* document order: the paragraph right after the heading becomes the title
\* only if it is shorter than 200 characters and does not look like an
\* article heading, a numbered sub-clause or a parenthesized item, otherwise
\* it is the first body line; the body is the following paragraphs, one line
\* each, up to the next article heading or a paragraph starting with "ANNEX".
C29_LegacyScanYieldsArticles ==
    parse_call.op = "_parse_html_legacy"
        => LET ps    == Paragraphs(soup)
               heads == SortedSeq({i \in DOMAIN ps : IsArticleHeading(ps[i])})
               arts  == parsed[1].articles
           IN /\ Len(arts) = Len(heads)
              /\ \A k \in DOMAIN arts :
                    LET h      == heads[k]
                        titled == /\ h < Len(ps)
                                  /\ Len(ps[h + 1]) < 200
                                  /\ ~LooksLikeClause(ps[h + 1])
                        start  == IF titled THEN h + 2 ELSE h + 1
                    IN /\ arts[k].article_number = article_pattern(ps[h])[1]
                       /\ arts[k].title = (IF titled THEN ps[h + 1] ELSE "")
                       /\ arts[k].text
                             = JoinLines(SubSeq(ps, start, NextBoundary(ps, start) - 1))

-----------------------------------------------------------------------------
(* Position and inherited fields of the chunks of an article (SpecArticle) *)

\* C30: for every article and max_chars, the chunks returned by
\* chunk_article have chunk_index 0, 1, ..., n-1 in list order and
\* total_chunks equal to n, the number of chunks after the merge step, and
\* each chunk carries the article's document ID, article number, title,
\* chapter and section unchanged.
C30_ChunksNumberedAndInheritArticle ==
    article_done
        => \A i \in DOMAIN chunks :
              /\ chunks[i].chunk_index = i - 1
              /\ chunks[i].total_chunks = Len(chunks)
              /\ chunks[i].celex_id = article.celex_id
              /\ chunks[i].article_number = article.article_number
              /\ chunks[i].article_title = article.title
              /\ chunks[i].chapter = article.chapter
              /\ chunks[i].section = article.section

\* chunk_article has split an article with a title into three chunks.
C30_Witness ==
    /\ article_done
    /\ Len(chunks) = 3
    /\ article.title # ""
    /\ chunks[3].chunk_index = 2

====
